---- MODULE Spec2Model ----
(***************************************************************************)
(* A model of the travel planner service (src/app.py) and of its text and  *)
(* retrieval helpers (src/rag_utils.py).                                   *)
(*                                                                         *)
(* Text is modelled as a sequence of atoms.  Text that comes from outside  *)
(* the program (request fields, plan text, configuration values, messages  *)
(* of third-party exceptions) is a sequence of one-character strings, so   *)
(* that strip(), split(), startswith(), lower(), slicing, regular          *)
(* expression search and the `in` substring test are computed character by *)
(* character.  A literal of the source that the program only concatenates  *)
(* is one atom: an ASCII gloss of the literal, written between [ ].  No    *)
(* literal of the source holds one of the markers the program searches     *)
(* messages for ('401', 'Unauthorized', '429', 'timeout', 'rate limit',    *)
(* 'Connection'), and every place where a literal meets interpolated text  *)
(* has a non-alphanumeric character on the literal's side, so a marker     *)
(* never spans an atom's edge.                                             *)
(***************************************************************************)
EXTENDS Integers, Sequences, FiniteSets, TLC

VARIABLES
    \* parse_plan_to_ics: its arguments, the clock, and what the call gave
    plan_text, ics_destination, start_date, now, calendar,
    \* the process-wide configuration read at startup
    LLM_MODE, OLLAMA_MODEL, GOOGLE_API_KEY, GOOGLE_SEARCH_ENGINE_ID,
    \* the HTTP request being handled and the handler's position
    request, pc,
    \* the handler's locals that live across outbound calls
    llm_mode, prompt, search_results, enriched_results, api_error,
    \* every outbound call made while handling the request, in order
    calls,
    \* the response of the route
    response,
    \* search_destination_info: its queries, its locals, what it returned
    search_queries, all_results, unique_results, aggregated,
    \* clean_text / split_text_into_chunks: arguments and what they returned
    raw_text, chunk_size, cleaned_text, chunks, guide,
    \* the retrieval module: its globals, the stored records, the result
    \* of the latest init_rag_system call and of the latest operation
    CHROMADB_AVAILABLE, vector_db, embedding_model, collection, last_init,
    rag_return,
    \* the clock the ids are made from, the ids each store call generated,
    \* and the number of clients and embedding models constructed so far
    rag_clock, id_batches, constructed

ics_vars == <<plan_text, ics_destination, start_date, now, calendar>>
config_vars == <<LLM_MODE, OLLAMA_MODEL, GOOGLE_API_KEY, GOOGLE_SEARCH_ENGINE_ID>>
api_vars ==
    <<request, pc, llm_mode, prompt, search_results, enriched_results,
      api_error, calls, response>>
agg_vars == <<search_queries, all_results, unique_results, aggregated>>
text_vars == <<raw_text, chunk_size, cleaned_text, chunks, guide>>
rag_vars ==
    <<CHROMADB_AVAILABLE, vector_db, embedding_model, collection, last_init,
      rag_return, rag_clock, id_batches, constructed>>
lib_vars == <<agg_vars, text_vars, rag_vars>>
vars == <<ics_vars, config_vars, api_vars, lib_vars>>

(***************************************************************************)
(* Bounds of the model.                                                    *)
(***************************************************************************)
MaxLines == 4          \* plan texts have 0..MaxLines lines of LinePool
LongLineLen == 350     \* the length of the long line of LinePool

(***************************************************************************)
(* Characters and strings.                                                 *)
(***************************************************************************)
SetMin(S) == CHOOSE x \in S : \A y \in S : x <= y
SetMax(S) == CHOOSE x \in S : \A y \in S : x >= y

Digits == <<"0", "1", "2", "3", "4", "5", "6", "7", "8", "9">>
IsDigit(c) == \E i \in 1..10 : Digits[i] = c
DigitVal(c) == (CHOOSE i \in 1..10 : Digits[i] = c) - 1
IsSpace(c) == c \in {" ", "\t", "\r", "\n", "\f"}

\* int(s) for a string of decimal digits
RECURSIVE ParseInt(_)
ParseInt(s) ==
    IF Len(s) = 0 THEN 0
    ELSE 10 * ParseInt(SubSeq(s, 1, Len(s) - 1)) + DigitVal(s[Len(s)])

\* str(n) / f"{n}" for n >= 0
RECURSIVE FormatInt(_)
FormatInt(n) ==
    IF n < 10 THEN <<Digits[n + 1]>>
    ELSE FormatInt(n \div 10) \o <<Digits[(n % 10) + 1]>>

UpperLetters ==
    <<"A", "B", "C", "D", "E", "F", "G", "H", "I", "J", "K", "L", "M", "N",
      "O", "P", "Q", "R", "S", "T", "U", "V", "W", "X", "Y", "Z">>
LowerLetters ==
    <<"a", "b", "c", "d", "e", "f", "g", "h", "i", "j", "k", "l", "m", "n",
      "o", "p", "q", "r", "s", "t", "u", "v", "w", "x", "y", "z">>
LowerChar(c) ==
    IF \E i \in 1..26 : UpperLetters[i] = c
    THEN LowerLetters[CHOOSE i \in 1..26 : UpperLetters[i] = c]
    ELSE c
\* s.lower()
Lower(s) == [i \in 1..Len(s) |-> LowerChar(s[i])]

\* s[:n]
Prefix(s, n) == SubSeq(s, 1, IF Len(s) < n THEN Len(s) ELSE n)

\* s.startswith(p)
StartsWith(s, p) == Len(s) >= Len(p) /\ SubSeq(s, 1, Len(p)) = p

\* p in s
Contains(s, p) ==
    \E i \in 1..(Len(s) - Len(p) + 1) : SubSeq(s, i, i + Len(p) - 1) = p

\* s.lstrip(), s.rstrip(), s.strip()
RECURSIVE lstrip(_)
lstrip(s) ==
    IF Len(s) > 0 /\ IsSpace(s[1]) THEN lstrip(Tail(s)) ELSE s
RECURSIVE rstrip(_)
rstrip(s) ==
    IF Len(s) > 0 /\ IsSpace(s[Len(s)]) THEN rstrip(SubSeq(s, 1, Len(s) - 1))
    ELSE s
strip(s) == rstrip(lstrip(s))

\* text.split('\n'): one more line than there are newlines
split_lines(text) ==
    LET nl == {i \in 1..Len(text) : text[i] = "\n"}
        rank(p) == Cardinality({q \in nl : q <= p})
        before(k) == IF k = 1 THEN 0 ELSE CHOOSE p \in nl : rank(p) = k - 1
        after(k) == IF k = Cardinality(nl) + 1 THEN Len(text) + 1
                    ELSE CHOOSE p \in nl : rank(p) = k
    IN  [k \in 1..(Cardinality(nl) + 1) |->
            SubSeq(text, before(k) + 1, after(k) - 1)]

\* s.split(':')[0]
BeforeColon(s) ==
    LET at == {i \in 1..Len(s) : s[i] = ":"}
    IN  IF at = {} THEN s ELSE SubSeq(s, 1, SetMin(at) - 1)

\* sep.join(parts)
RECURSIVE Join(_, _)
Join(parts, sep) ==
    IF Len(parts) = 0 THEN <<>>
    ELSE IF Len(parts) = 1 THEN parts[1]
    ELSE parts[1] \o sep \o Join(Tail(parts), sep)

\* ''.join(parts)
RECURSIVE Concat(_)
Concat(parts) ==
    IF parts = <<>> THEN <<>> ELSE Head(parts) \o Concat(Tail(parts))

\* '\n'.join(lines)
RECURSIVE join_lines(_)
join_lines(lines) ==
    IF Len(lines) = 0 THEN <<>>
    ELSE IF Len(lines) = 1 THEN lines[1]
    ELSE lines[1] \o <<"\n">> \o join_lines(Tail(lines))

\* the last index of the run of whitespace (\s+) or of digits (\d+) that
\* starts at from (from - 1 when the run is empty)
RECURSIVE SpaceRunEnd(_, _)
SpaceRunEnd(s, from) ==
    IF from <= Len(s) /\ IsSpace(s[from]) THEN SpaceRunEnd(s, from + 1)
    ELSE from - 1
RECURSIVE DigitRunEnd(_, _)
DigitRunEnd(s, from) ==
    IF from <= Len(s) /\ IsDigit(s[from]) THEN DigitRunEnd(s, from + 1)
    ELSE from - 1

(***************************************************************************)
(* Dates: datetime as the proleptic Gregorian ordinal of the day plus the  *)
(* time of day.  datetime.strptime(s, '%Y-%m-%d') is modelled on the       *)
(* fields of s; adding a timedelta leaves the representable range          *)
(* 0001-01-01 .. 9999-12-31 with OverflowError.                            *)
(***************************************************************************)
MAXYEAR == 9999
IsLeap(y) == y % 4 = 0 /\ (y % 100 # 0 \/ y % 400 = 0)
DaysInMonth(y, m) ==
    IF m = 2 THEN (IF IsLeap(y) THEN 29 ELSE 28)
    ELSE IF m \in {4, 6, 9, 11} THEN 30 ELSE 31
DaysBeforeYear(y) ==
    (y - 1) * 365 + ((y - 1) \div 4) - ((y - 1) \div 100) + ((y - 1) \div 400)
RECURSIVE DaysBeforeMonth(_, _)
DaysBeforeMonth(y, m) ==
    IF m = 1 THEN 0 ELSE DaysBeforeMonth(y, m - 1) + DaysInMonth(y, m - 1)
ToOrdinal(y, m, d) == DaysBeforeYear(y) + DaysBeforeMonth(y, m) + d
MaxOrdinal == ToOrdinal(MAXYEAR, 12, 31)

IsValidDate(s) ==
    /\ s.year \in 1..MAXYEAR
    /\ s.month \in 1..12
    /\ s.day \in 1..DaysInMonth(s.year, s.month)

\* datetime.strptime(s, '%Y-%m-%d') for a valid s: midnight of that day
strptime(s) ==
    [ord |-> ToOrdinal(s.year, s.month, s.day), hour |-> 0, minute |-> 0,
     second |-> 0]

\* dt + timedelta(days = n) is representable
CanAddDays(dt, n) == dt.ord + n >= 1 /\ dt.ord + n <= MaxOrdinal
AddDays(dt, n) == [dt EXCEPT !.ord = dt.ord + n]
\* dt.replace(hour = h, minute = 0): the seconds of dt are kept
ReplaceHour(dt, h) == [dt EXCEPT !.hour = h, !.minute = 0]

(***************************************************************************)
(* parse_plan_to_ics (src/app.py 354-419).                                 *)
(*                                                                         *)
(* calendar.events is a set of Event objects; every Event gets a fresh uid *)
(* and two events are equal only when their uids are, so events with equal *)
(* fields stay distinct.  The uid is modelled by the creation number.      *)
(***************************************************************************)
NoDay == -1                 \* current_day = None
DescriptionLimit == 1000    \* event_text[:1000], plan_text[:1000]

NoStartDate == [given |-> FALSE]
DateString(y, m, d) == [given |-> TRUE, year |-> y, month |-> m, day |-> d]

\* re.search(r'Day\s+(\d+):', line, re.IGNORECASE) anchored at position i.
\* The classes \s, \d and ':' are disjoint, so the greedy runs decide.
DayMatchAt(line, i) ==
    /\ i + 2 <= Len(line)
    /\ line[i] \in {"D", "d"}
    /\ line[i + 1] \in {"A", "a"}
    /\ line[i + 2] \in {"Y", "y"}
    /\ LET wsEnd == SpaceRunEnd(line, i + 3)
           dEnd == DigitRunEnd(line, wsEnd + 1)
       IN  /\ wsEnd >= i + 3
           /\ dEnd >= wsEnd + 1
           /\ dEnd + 1 <= Len(line)
           /\ line[dEnd + 1] = ":"

\* the leftmost match and its group(1)
day_match(line) ==
    LET hits == {i \in 1..Len(line) : DayMatchAt(line, i)}
    IN  IF hits = {} THEN [matched |-> FALSE]
        ELSE LET i == SetMin(hits)
                 wsEnd == SpaceRunEnd(line, i + 3)
                 dEnd == DigitRunEnd(line, wsEnd + 1)
             IN  [matched |-> TRUE, group1 |-> SubSeq(line, wsEnd + 1, dEnd)]

\* line.startswith('**') or line.startswith('-') or line.startswith('*')
IsCollected(line) ==
    \/ StartsWith(line, <<"*", "*">>)
    \/ StartsWith(line, <<"-">>)
    \/ StartsWith(line, <<"*">>)

\* f"Day {current_day}: {destination}"
DayEventName(current_day, destination) ==
    <<"D", "a", "y", " ">> \o FormatInt(current_day) \o <<":", " ">>
        \o destination

\* f"Travel Plan: {destination}"
FallbackEventName(destination) ==
    <<"T", "r", "a", "v", "e", "l", " ", "P", "l", "a", "n", ":", " ">>
        \o destination

\* the Event built for the collected lines of current_day
DayEvent(st, start, destination) ==
    LET day_date == AddDays(start, st.current_day - 1)
    IN  [uid |-> Cardinality(st.events) + 1,
         name |-> DayEventName(st.current_day, destination),
         begin |-> ReplaceHour(day_date, 9),
         end |-> ReplaceHour(day_date, 18),
         description |-> Prefix(join_lines(st.current_events),
                                DescriptionLimit)]

\* "save the events of the previous day": the block at 379-387 and 397-405
FlushDay(st, start, destination) ==
    IF st.raised # "" THEN st
    ELSE IF st.current_day # NoDay /\ st.current_events # <<>>
    THEN IF ~CanAddDays(start, st.current_day - 1)
         THEN [st EXCEPT !.raised = "OverflowError"]
         ELSE [st EXCEPT !.events = @ \cup {DayEvent(st, start, destination)}]
    ELSE st

\* one iteration of the loop over the lines
ScanLine(st, raw, start, destination) ==
    LET line == strip(raw)
        m == day_match(line)
    IN  IF st.raised # "" THEN st
        ELSE IF m.matched
        THEN LET f == FlushDay(st, start, destination)
             IN  IF f.raised # "" THEN f
                 ELSE [f EXCEPT !.current_day = ParseInt(m.group1),
                                !.current_events = <<>>]
        ELSE IF /\ st.current_day # NoDay
                /\ st.current_day # 0
                /\ line # <<>>
                /\ ~StartsWith(line, <<"#">>)
        THEN IF IsCollected(line)
             THEN [st EXCEPT !.current_events = Append(@, line)]
             ELSE st
        ELSE st

RECURSIVE ScanLines(_, _, _, _, _)
ScanLines(st, lines, k, start, destination) ==
    IF k > Len(lines) THEN st
    ELSE ScanLines(ScanLine(st, lines[k], start, destination), lines, k + 1,
                   start, destination)

\* FallbackEvent without the cut of the description
FallbackEvent_uncut(text, start, destination) ==
    [uid |-> 1,
     name |-> FallbackEventName(destination),
     begin |-> ReplaceHour(start, 9),
     end |-> ReplaceHour(start, 18),
     description |-> text]

\* the default event added when the calendar is still empty
FallbackEvent(text, start, destination) ==
    [uid |-> 1,
     name |-> FallbackEventName(destination),
     begin |-> ReplaceHour(start, 9),
     end |-> ReplaceHour(start, 18),
     description |-> Prefix(text, DescriptionLimit)]

Raised(exc) == [status |-> "raised", exc |-> exc]
Returned(events) == [status |-> "returned", events |-> events]

\* the start of the plan: tomorrow, or the parsed start_date
StartOf(date, clock) ==
    IF ~date.given THEN AddDays(clock, 1) ELSE strptime(date)

parse_plan_to_ics(text, destination, date, clock) ==
    IF date.given /\ ~IsValidDate(date) THEN Raised("ValueError")
    ELSE
      LET start == StartOf(date, clock)
          st0 == [current_day |-> NoDay, current_events |-> <<>>,
                  events |-> {}, raised |-> ""]
          scanned == ScanLines(st0, split_lines(text), 1, start, destination)
          last == FlushDay(scanned, start, destination)
      IN  IF last.raised # "" THEN Raised(last.raised)
          ELSE IF last.events = {}
          THEN Returned({FallbackEvent(text, start, destination)})
          ELSE Returned(last.events)

(***************************************************************************)
(* The inputs of parse_plan_to_ics.                                        *)
(***************************************************************************)
LongBullet == <<"-">> \o [i \in 1..LongLineLen |-> "x"]

LinePool ==
    { <<"D", "a", "y", " ", "1", ":">>,
      <<"#", "#", " ", "d", "a", "y", " ", " ", "0", "2", ":", " ", "T">>,
      <<"-", " ", "a">>,
      <<" ", "*", "*", "b", "*", "*">>,
      LongBullet,
      <<"n", "o", "t", "e">>,
      <<"D", "a", "y", " ", "0", ":">>,
      <<"D", "a", "y", " ", "3", "0", "0", "0", "0", "0", "0", ":">> }

PlanTexts ==
    {join_lines(ls) : ls \in UNION {[1..n -> LinePool] : n \in 0..MaxLines}}

Destinations == { <<"R", "o", "m", "e">> }

StartDates ==
    { NoStartDate, DateString(2024, 2, 28), DateString(MAXYEAR, 12, 31),
      DateString(2023, 2, 29) }

\* datetime.now()
Clocks == { [ord |-> ToOrdinal(2026, 11, 4), hour |-> 14, minute |-> 23,
             second |-> 45] }

Pending == [status |-> "pending"]

(***************************************************************************)
(* JSON values of a request body, and Python's view of them.               *)
(***************************************************************************)
JNull == [t |-> "null"]
JStr(s) == [t |-> "str", s |-> s]
JNum(n) == [t |-> "num", n |-> n]
JList(n) == [t |-> "list", len |-> n]
JObj(fields) == [t |-> "obj", fields |-> fields]

\* bool(v): None, '', 0, [] and {} are falsy
Truthy(v) ==
    CASE v.t = "null" -> FALSE
      [] v.t = "str" -> v.s # <<>>
      [] v.t = "num" -> v.n # 0
      [] v.t = "list" -> v.len # 0
      [] v.t = "obj" -> DOMAIN v.fields # {}

\* data.get(key, default) on a dict
DictGet(data, key, default) ==
    IF key \in DOMAIN data.fields THEN data.fields[key] ELSE default

\* the name of type(v) as an AttributeError's message quotes it
PyTypeQuoted(v) ==
    CASE v.t = "null" -> <<"'", "N", "o", "n", "e", "T", "y", "p", "e", "'">>
      [] v.t = "str" -> <<"'", "s", "t", "r", "'">>
      [] v.t = "num" -> <<"'", "i", "n", "t", "'">>
      [] v.t = "list" -> <<"'", "l", "i", "s", "t", "'">>
      [] v.t = "obj" -> <<"'", "d", "i", "c", "t", "'">>

\* f"{v}"
Fmt(v) ==
    CASE v.t = "str" -> v.s
      [] v.t = "num" -> FormatInt(v.n)
      [] v.t = "null" -> <<"N", "o", "n", "e">>

(***************************************************************************)
(* Exceptions and results of calls.                                        *)
(***************************************************************************)
Exc(type, msg) == [type |-> type, msg |-> msg]
Ok(value) == [ok |-> TRUE, value |-> value]
Raise(exc) == [ok |-> FALSE, exc |-> exc]

\* an outbound call, as logged in calls, with what the other side answered
Call(op, target, outcome) == [op |-> op, target |-> target, outcome |-> outcome]

(***************************************************************************)
(* The local model server (Ollama): check_ollama_connection (262-288) and  *)
(* call_local_llm (290-352).                                               *)
(***************************************************************************)
OLLAMA_BASE_URL == <<"h", "t", "t", "p", ":", "/", "/", "l", "o", "c", "a",
    "l", "h", "o", "s", "t", ":", "1", "1", "4", "3", "4">>

\* str(e) of the HTTPError that response.raise_for_status() raises
HttpReason(status) ==
    CASE status = 401 -> <<"U", "n", "a", "u", "t", "h", "o", "r", "i", "z",
        "e", "d">>
      [] status = 404 -> <<"N", "o", "t", " ", "F", "o", "u", "n", "d">>
      [] status = 429 -> <<"T", "o", "o", " ", "M", "a", "n", "y", " ", "R",
          "e", "q", "u", "e", "s", "t", "s">>
      [] OTHER -> <<"I", "n", "t", "e", "r", "n", "a", "l", " ", "S", "e",
          "r", "v", "e", "r", " ", "E", "r", "r", "o", "r">>
HttpErrorText(status, url) ==
    FormatInt(status)
        \o (IF status < 500 THEN <<" ", "C", "l", "i", "e", "n", "t", " ",
            "E", "r", "r", "o", "r", ":", " ">> ELSE <<" ", "S", "e", "r",
            "v", "e", "r", " ", "E", "r", "r", "o", "r", ":", " ">>)
        \o HttpReason(status) \o <<" ", "f", "o", "r", " ", "u", "r", "l",
            ":", " ">> \o url

\* what the GET of {OLLAMA_BASE_URL}/api/tags can give
TagsUrl == OLLAMA_BASE_URL \o <<"/", "a", "p", "i", "/", "t", "a", "g", "s">>
ChatUrl == OLLAMA_BASE_URL \o <<"/", "a", "p", "i", "/", "c", "h", "a", "t">>

\* ModelAvailable without the check of the installed models
ModelAvailable_unchecked(model, names) == TRUE

\* the configured model is among the installed ones: its name without the
\* ':tag' is the name without the ':tag' of one of them, or it is one of them
ModelAvailable(model, names) ==
    LET available_models == [i \in 1..Len(names) |-> BeforeColon(names[i])]
        model_base == BeforeColon(model)
    IN  \/ \E i \in 1..Len(names) : available_models[i] = model_base
        \/ \E i \in 1..Len(names) : names[i] = model

ModelMissingText(model, names) ==
    LET available_models == [i \in 1..Len(names) |-> BeforeColon(names[i])]
        available_models_str ==
            IF Len(names) > 0 THEN Join(available_models, <<",",
                " ">>) ELSE <<"N", "o", "n", "e">>
    IN  <<"[model ']">> \o model \o <<"[' is not installed. installed models: ]">>
            \o available_models_str \o <<"[. run: ollama pull ]">> \o model

\* check_ollama_connection for one answer of the tag endpoint
check_ollama_connection(model, tags) ==
    CASE tags.kind = "connection_error" ->
            Raise(Exc("Exception",
                <<"[cannot connect to the Ollama service (]">> \o OLLAMA_BASE_URL
                    \o <<"[). make sure Ollama is running ...]">>))
      [] tags.kind = "timeout" ->
            Raise(Exc("Exception",
                <<"[connecting to the Ollama service timed out (]">>
                    \o OLLAMA_BASE_URL \o <<"[). check that Ollama runs.]">>))
      [] tags.kind = "http_error" ->
            Raise(Exc("Exception",
                <<"[error while checking the Ollama connection: ]">>
                    \o HttpErrorText(tags.status, TagsUrl)
                    \o <<"[. make sure Ollama is running.]">>))
      [] tags.kind = "bad_json" ->
            Raise(Exc("Exception",
                <<"[error while checking the Ollama connection: ]">>
                    \o <<"E", "x", "p", "e", "c", "t", "i", "n", "g", " ",
                        "v", "a", "l", "u", "e", ":", " ", "l", "i", "n", "e",
                        " ", "1", " ", "c", "o", "l", "u", "m", "n", " ", "1",
                        " ", "(", "c", "h", "a", "r", " ", "0", ")">>
                    \o <<"[. make sure Ollama is running.]">>))
      [] tags.kind = "ok" ->
            IF ~ModelAvailable(model, tags.names)
            THEN Raise(Exc("Exception", ModelMissingText(model, tags.names)))
            ELSE Ok(TRUE)

\* the except clauses of call_local_llm (332-352): the exception it raises
\* for an exception raised in its try block
call_local_llm_except(e) ==
    CASE e.type = "ConnectionError" ->
            Exc("Exception",
                <<"[cannot connect to the Ollama service (]">> \o OLLAMA_BASE_URL
                    \o <<"[). make sure Ollama is running. fixes: 1. start Ollama 2. check the URL: ]">>
                    \o OLLAMA_BASE_URL \o <<"[ 3. check the firewall]">>)
      [] e.type = "HTTPError" ->
            IF e.status = 404
            THEN Exc("Exception", <<"[model ']">> \o e.model
                        \o <<"[' not found (404). run: ollama pull ]">> \o e.model)
            ELSE Exc("Exception", <<"[HTTP error (]">> \o FormatInt(e.status)
                        \o <<"[): ]">> \o e.msg)
      [] e.type = "Timeout" ->
            Exc("Exception",
                <<"[the request timed out (more than 5 minutes) ...]">>)
      [] OTHER ->
            Exc("Exception", <<"[local LLM call failed: ]">> \o e.msg)

\* lines 315-331 of call_local_llm for one answer of the chat endpoint
chat_result(model, chat) ==
    CASE chat.kind = "connection_error" -> Raise(Exc("ConnectionError", <<"r",
        "e", "f", "u", "s", "e", "d">>))
      [] chat.kind = "timeout" -> Raise(Exc("Timeout", <<"R", "e", "a", "d",
          " ", "t", "i", "m", "e", "d", " ", "o", "u", "t", ".">>))
      [] chat.kind = "http_error" ->
            IF chat.status = 404
            THEN Raise(Exc("Exception",
                    <<"[the API endpoint does not exist (404). check the Ollama version. try: ]">>
                        \o OLLAMA_BASE_URL \o <<"[/api/tags ...]">>))
            ELSE Raise([type |-> "HTTPError", status |-> chat.status,
                        model |-> model,
                        msg |-> HttpErrorText(chat.status, ChatUrl)])
      [] chat.kind = "bad_json" ->
            Raise(Exc("JSONDecodeError",
                      <<"E", "x", "p", "e", "c", "t", "i", "n", "g", " ", "v",
                          "a", "l", "u", "e", ":", " ", "l", "i", "n", "e",
                          " ", "1", " ", "c", "o", "l", "u", "m", "n", " ",
                          "1", " ", "(", "c", "h", "a", "r", " ", "0", ")">>))
      [] chat.kind = "no_message" ->
            Raise(Exc("Exception", <<"[the data Ollama returned is malformed]">>))
      [] chat.kind = "content" ->
            IF chat.content = <<>>
            THEN Raise(Exc("Exception", <<"[the content Ollama returned is empty]">>))
            ELSE Ok(chat.content)

\* call_local_llm after a passed preflight, for one answer of the chat endpoint
call_local_llm_chat(model, chat) ==
    LET r == chat_result(model, chat)
    IN  IF r.ok THEN r ELSE Raise(call_local_llm_except(r.exc))

\* call_local_llm when the preflight raised
call_local_llm_preflight(model, tags) ==
    LET r == check_ollama_connection(model, tags)
    IN  IF r.ok THEN r ELSE Raise(call_local_llm_except(r.exc))

(***************************************************************************)
(* The hosted model: client.chat.completions.create as generate_plan uses  *)
(* it (739-769).                                                           *)
(***************************************************************************)
TruncationNote(days) ==
    <<"[\n\n[Note: The response was truncated due to token limit. The itinerary may be incomplete. For longer trips (]">>
        \o Fmt(days)
        \o <<"[ days), please consider splitting into multiple requests or reducing the detail level.]]">>

\* lines 739-766 for one answer of the hosted API: the plan, or what is raised
hosted_plan_result(completion, days) ==
    CASE completion.kind = "raise" -> Raise(Exc("APIError", completion.msg))
      [] completion.kind = "response" ->
            IF completion.choices = 0
            THEN Raise(Exc("Exception", <<"[the API returned malformed data]">>))
            ELSE IF completion.finish_reason = "length"
            THEN IF completion.content.t = "null"
                 THEN Raise(Exc("TypeError",
                        <<"u", "n", "s", "u", "p", "p", "o", "r", "t", "e",
                            "d", " ", "o", "p", "e", "r", "a", "n", "d", " ",
                            "t", "y", "p", "e", "(", "s", ")", " ", "f", "o",
                            "r", " ", "+", "=", ":", " ", "'", "N", "o", "n",
                            "e", "T", "y", "p", "e", "'", " ", "a", "n", "d",
                            " ", "'", "s", "t", "r", "'">>))
                 ELSE Ok(JStr(completion.content.s \o TruncationNote(days)))
            ELSE Ok(completion.content)

(***************************************************************************)
(* generate_plan (604-817).                                                *)
(***************************************************************************)
Respond(status, body) == [status |-> status, body |-> body]
NoResponse == [status |-> 0]
NoError == [type |-> "none"]

\* the prompt of lines 646-720
BuildPrompt(days, destination, budget, preferences, mode) ==
    <<"[Please create a detailed ]">> \o Fmt(days)
        \o <<"[-day travel plan for ]">> \o Fmt(destination) \o <<"[.\n\n]">>
        \o (IF Truthy(budget)
            THEN <<"[Budget: ]">> \o Fmt(budget) \o <<"[\n\n]">> ELSE <<>>)
        \o (IF Truthy(preferences)
            THEN <<"[Preferences: ]">> \o Fmt(preferences) \o <<"[\n\n]">>
            ELSE <<>>)
        \o (IF mode = <<"l", "o", "c", "a", "l">>
            THEN <<"[Create a ]">> \o Fmt(days) \o <<"[-day travel plan for ]">>
                    \o Fmt(destination)
                    \o <<"[.\n\nFormat:\nDay 1:\n- Morning: ... [Repeat for all ]">>
                    \o Fmt(days)
                    \o <<"[ days]\n\nTips: ...\n\nIMPORTANT: \n- Write in English. Include all ]">>
                    \o Fmt(days)
                    \o <<"[ days.\n- Do NOT ask any questions. ... without any follow-up questions.]">>
            ELSE <<"[Please provide a detailed travel plan ... for ALL ]">>
                    \o Fmt(days)
                    \o <<"[ days. Do not stop early. ... - Travel Days: ]">>
                    \o Fmt(days) \o <<"[ days (MUST include all ]">> \o Fmt(days)
                    \o <<"[ days) ... [Continue for ALL ]">> \o Fmt(days)
                    \o <<"[ days - Day 3, Day 4, Day 5, ... Day ]">> \o Fmt(days)
                    \o <<"[] ... CRITICAL REQUIREMENT: \n- You MUST provide a complete itinerary for all ]">>
                    \o Fmt(days)
                    \o <<"[ days. Do not stop at Day 14 or any other day before Day ]">>
                    \o Fmt(days) \o <<"[. Include Day 1 through Day ]">>
                    \o Fmt(days)
                    \o <<"[ in your response.\n- Do NOT ask any questions. ... - Write everything in English.]">>)

\* the handler of the outer try (796-817): always HTTP 500
generate_plan_outer_except(e) ==
    LET error_message ==
            IF Contains(e.msg, <<"4", "0", "1">>) \/ Contains(e.msg, <<"U",
                "n", "a", "u", "t", "h", "o", "r", "i", "z", "e", "d">>)
            THEN <<"[the API key is invalid, check the DeepSeek API key configuration]">>
            ELSE IF Contains(e.msg, <<"4", "2", "9">>)
                    \/ Contains(Lower(e.msg), <<"r", "a", "t", "e", " ", "l",
                        "i", "m", "i", "t">>)
            THEN <<"[the API is called too often, try again later]">>
            ELSE IF Contains(Lower(e.msg), <<"t", "i", "m", "e", "o", "u",
                "t">>)
            THEN <<"[the request timed out, check the network or retry later]">>
            ELSE IF Contains(e.msg, <<"C", "o", "n", "n", "e", "c", "t", "i",
                "o", "n">>)
            THEN <<"[the network connection failed, check your network]">>
            ELSE e.msg
    IN  Respond(500, [success |-> FALSE,
                      error |-> <<"[error while generating the plan: ]">>
                                    \o error_message])

\* the handler of the inner try (776-794)
generate_plan_except(api_error_) ==
    LET error_str == api_error_.msg
    IN  IF Contains(error_str, <<"4", "0",
        "1">>) \/ Contains(error_str, <<"U", "n", "a", "u", "t", "h", "o",
        "r", "i", "z", "e", "d">>)
        THEN Respond(401, [success |-> FALSE,
                error |-> <<"[the API key is invalid or expired, check your DeepSeek API key configuration]">>])
        ELSE IF Contains(error_str, <<"4", "2", "9">>)
        THEN Respond(429, [success |-> FALSE,
                error |-> <<"[the API is called too often, try again later]">>])
        ELSE generate_plan_outer_except(api_error_)

\* the success response with a reference to a search result in it
PlanResponse_with_reference(plan) ==
    Respond(200, [success |-> TRUE, plan |-> plan,
                  references |-> <<[title |-> <<"T", "1">>,
                                    link |-> <<"L", "1">>]>>])

\* lines 771-775
PlanResponse(plan) ==
    Respond(200, [success |-> TRUE, plan |-> plan, references |-> <<>>])

\* lines 607-720: validation, mode selection and the prompt.  Gives the
\* response when the request ends here, else the mode and the prompt.
generate_plan_begin(req, default_mode) ==
    IF ~req.is_json
    THEN [done |-> TRUE, response |-> Respond(400, [success |-> FALSE,
            error |-> <<"[bad request format, JSON is needed]">>])]
    ELSE IF ~Truthy(req.json)
    THEN [done |-> TRUE, response |-> Respond(400, [success |-> FALSE,
            error |-> <<"[the request data is empty]">>])]
    ELSE IF req.json.t # "obj"
    THEN [done |-> TRUE, response |-> generate_plan_outer_except(
            Exc("AttributeError", PyTypeQuoted(req.json)
                                    \o <<" ", "o", "b", "j", "e", "c", "t",
                                        " ", "h", "a", "s", " ", "n", "o",
                                        " ", "a", "t", "t", "r", "i", "b",
                                        "u", "t", "e", " ", "'", "g", "e",
                                        "t", "'">>))]
    ELSE
      LET data == req.json
          days == DictGet(data, "days", JStr(<<>>))
          destination == DictGet(data, "destination", JStr(<<>>))
          budget == DictGet(data, "budget", JStr(<<>>))
          preferences == DictGet(data, "preferences", JStr(<<>>))
          mode_value == DictGet(data, "llm_mode", JStr(default_mode))
      IN  IF mode_value.t # "str"
          THEN [done |-> TRUE, response |-> generate_plan_outer_except(
                  Exc("AttributeError", PyTypeQuoted(mode_value)
                                        \o <<" ", "o", "b", "j", "e", "c",
                                            "t", " ", "h", "a", "s", " ", "n",
                                            "o", " ", "a", "t", "t", "r", "i",
                                            "b", "u", "t", "e", " ", "'", "l",
                                            "o", "w", "e", "r", "'">>))]
          ELSE IF ~Truthy(days) \/ ~Truthy(destination)
          THEN [done |-> TRUE, response |-> Respond(400, [success |-> FALSE,
                  error |-> <<"[fill in the number of days and the destination]">>])]
          ELSE [done |-> FALSE,
                llm_mode |-> Lower(mode_value.s),
                prompt |-> BuildPrompt(days, destination, budget, preferences,
                                       Lower(mode_value.s))]

(***************************************************************************)
(* google_search (69-113) and extract_webpage_content (132-206).           *)
(***************************************************************************)
\* item.get(key, '')
ItemGet(item, key) == IF key \in DOMAIN item THEN item[key] ELSE <<>>

\* google_search without the try that catches the errors of the call
google_search_uncaught(api_key, engine_id, answer) ==
    IF api_key = <<>> THEN Ok(<<>>)
    ELSE IF engine_id = <<>> THEN Ok(<<>>)
    ELSE IF answer.kind = "ok"
    THEN Ok([i \in 1..Len(answer.items) |->
                [title |-> ItemGet(answer.items[i], "title"),
                 snippet |-> ItemGet(answer.items[i], "snippet"),
                 link |-> ItemGet(answer.items[i], "link")]])
    ELSE Raise(Exc("RequestException", <<"e", "r", "r", "o", "r">>))

\* google_search for one answer of the search API: it returns a list and
\* never raises (its try catches Exception)
google_search(api_key, engine_id, answer) ==
    IF api_key = <<>> THEN Ok(<<>>)
    ELSE IF engine_id = <<>> THEN Ok(<<>>)
    ELSE IF answer.kind = "ok"
    THEN Ok([i \in 1..Len(answer.items) |->
                [title |-> ItemGet(answer.items[i], "title"),
                 snippet |-> ItemGet(answer.items[i], "snippet"),
                 link |-> ItemGet(answer.items[i], "link")]])
    ELSE Ok(<<>>)

\* google_search issues its GET only when both settings are there
SearchCallMade(api_key, engine_id) == api_key # <<>> /\ engine_id # <<>>

\* text[:max_length] + '...' when the text is longer
Truncate(text, max_length) ==
    IF Len(text) > max_length
    THEN Prefix(text, max_length) \o <<".", ".", ".">>
    ELSE text

\* extract_webpage_content for one answer of the page: the text or None.
\* The answer "ok" carries the text of the page's main element after the
\* clean-up of lines 184-188.
extract_webpage_content(fetch, max_length) ==
    CASE fetch.kind = "status" /\ fetch.status = 403 -> Ok(JNull)
      [] fetch.kind = "status" /\ fetch.status = 404 -> Ok(JNull)
      [] fetch.kind = "status" -> Ok(JNull)       \* raise_for_status, 195-200
      [] fetch.kind = "network_error" -> Ok(JNull)                \* 201-203
      [] fetch.kind = "parse_error" -> Ok(JNull)                  \* 204-206
      [] fetch.kind = "ok" -> Ok(JStr(Truncate(fetch.text, max_length)))

\* result['content'] = content
WithContent(result, content) ==
    [k \in DOMAIN result \cup {"content"} |->
        IF k = "content" THEN content ELSE result[k]]

(***************************************************************************)
(* search (426-602).                                                       *)
(***************************************************************************)
\* the handler of the outer try (584-602): always HTTP 500
search_outer_except(e) ==
    LET error_message ==
            IF Contains(Lower(e.msg), <<"t", "i", "m", "e", "o", "u", "t">>)
            THEN <<"[Request timeout. The search and content extraction process may take longer than expected. Please try again.]">>
            ELSE IF Contains(e.msg, <<"C", "o", "n", "n", "e", "c", "t", "i",
                "o", "n">>)
            THEN <<"[Connection error. Please check your network connection.]">>
            ELSE <<"[Search error: ]">> \o Prefix(e.msg, 200)
    IN  Respond(500, [success |-> FALSE, error |-> error_message])

\* lines 437-472: validation.  Gives the response when the request ends
\* here, else the query.
search_begin(req, api_key, engine_id) ==
    IF ~req.is_json
    THEN [done |-> TRUE, response |-> Respond(400, [success |-> FALSE,
            error |-> <<"[bad request format, JSON is needed]">>])]
    ELSE IF ~Truthy(req.json)
    THEN [done |-> TRUE, response |-> Respond(400, [success |-> FALSE,
            error |-> <<"[the request data is empty]">>])]
    ELSE IF req.json.t # "obj"
    THEN [done |-> TRUE, response |-> search_outer_except(
            Exc("AttributeError", PyTypeQuoted(req.json)
                                    \o <<" ", "o", "b", "j", "e", "c", "t",
                                        " ", "h", "a", "s", " ", "n", "o",
                                        " ", "a", "t", "t", "r", "i", "b",
                                        "u", "t", "e", " ", "'", "g", "e",
                                        "t", "'">>))]
    ELSE
      LET query == DictGet(req.json, "query", JStr(<<>>))
          has_api == api_key # <<>> /\ engine_id # <<>>
      IN  IF ~Truthy(query)
          THEN [done |-> TRUE, response |-> Respond(400, [success |-> FALSE,
                  error |-> <<"[enter a search keyword]">>])]
          ELSE IF ~has_api
          THEN [done |-> TRUE, response |-> Respond(400, [success |-> FALSE,
                  error |-> <<"[the Google API is not configured, cannot search]">>])]
          ELSE [done |-> FALSE, query |-> query]

\* lines 478-482
NoResultsResponse ==
    Respond(404, [success |-> FALSE,
                  error |-> <<"[no matching search results found]">>])

\* max_extract = min(len(search_results), 3)
MaxExtract(results) == IF Len(results) < 3 THEN Len(results) ELSE 3

\* one iteration of the loop of 490-506 for one answer of the page
ExtractStep(result, fetch) ==
    LET content == extract_webpage_content(fetch, 1000)
    IN  IF content.ok /\ Truthy(content.value)
        THEN WithContent(result, content.value.s)
        ELSE result

\* the summarization prompt of 512-521
RECURSIVE SourceBlocks(_, _)
SourceBlocks(results, i) ==
    IF i > Len(results) THEN <<>>
    ELSE <<"[=== Source ]">> \o FormatInt(i) \o <<"[ ===\nTitle: ]">>
            \o results[i].title
            \o (IF "content" \in DOMAIN results[i] /\ results[i].content # <<>>
                THEN <<"[\nContent: ]">> \o results[i].content
                ELSE <<"[\nSummary: ]">> \o results[i].snippet)
            \o <<"[\n\n]">> \o SourceBlocks(results, i + 1)
SummaryPrompt(query, results) ==
    <<"[Please summarize the following search results about ']">> \o Fmt(query)
        \o <<"[', extract key information and organize it into a clear summary:\n\n]">>
        \o SourceBlocks(results, 1)
        \o <<"[Please generate a concise and comprehensive summary ... Write in English.]">>

\* lines 526-546 for one answer of the hosted API
summary_result(completion) ==
    CASE completion.kind = "raise" -> Raise(Exc("APIError", completion.msg))
      [] completion.kind = "response" ->
            IF completion.choices = 0
            THEN Raise(Exc("Exception", <<"[the API returned malformed data]">>))
            ELSE Ok(completion.content)

\* [{'title': r.get('title', ''), 'link': r.get('link', '')} for r in ...]
\* of the success response (553) and of the failure response (579)
SuccessReferences(results) ==
    [i \in 1..Len(results) |->
        [title |-> results[i].title, link |-> results[i].link]]
FailureReferences_dropped(results) == <<>>
FailureReferences(results) ==
    [i \in 1..Len(results) |->
        [title |-> results[i].title, link |-> results[i].link]]

\* lines 549-555
SummaryResponse(summary, results) ==
    Respond(200, [success |-> TRUE, summary |-> summary,
                  references |-> SuccessReferences(results),
                  using_api |-> TRUE])

\* the handler of the inner try (556-582): still a success response
SummaryFailedResponse(api_error_, results) ==
    LET error_str == api_error_.msg
        error_msg ==
            <<"[AI summary is temporarily unavailable. ]">>
            \o (IF Contains(error_str, <<"4", "0", "1">>)
                    \/ Contains(error_str, <<"U", "n", "a", "u", "t", "h",
                        "o", "r", "i", "z", "e", "d">>)
                THEN <<"[API key is invalid or expired. Please check your DeepSeek API key configuration.]">>
                ELSE IF Contains(error_str, <<"4", "2", "9">>)
                THEN <<"[API rate limit exceeded. Please try again later.]">>
                ELSE IF Contains(Lower(error_str), <<"t", "i", "m", "e", "o",
                    "u", "t">>)
                THEN <<"[Request timeout. Please try again.]">>
                ELSE <<"[Error: ]">> \o Prefix(error_str, 200))
    IN  Respond(200, [success |-> TRUE,
                      summary |-> JStr(error_msg
                                    \o <<"[\n\nHere are the search results:]">>),
                      references |-> FailureReferences(results),
                      using_api |-> TRUE,
                      summary_error |-> TRUE])

(***************************************************************************)
(* export_ics (819-869).                                                   *)
(***************************************************************************)
\* the fields of a 'YYYY-MM-DD' string as datetime.strptime reads them; a
\* string of another shape gives fields that are no date (ValueError)
start_date_fields(s) ==
    LET dashes == {i \in 1..Len(s) : s[i] = "-"}
        d1 == SetMin(dashes)
        d2 == SetMax(dashes)
        year == SubSeq(s, 1, d1 - 1)
        month == SubSeq(s, d1 + 1, d2 - 1)
        day == SubSeq(s, d2 + 1, Len(s))
        digits(p) == \A i \in 1..Len(p) : IsDigit(p[i])
    IN  IF /\ Cardinality(dashes) = 2
           /\ Len(year) = 4 /\ digits(year)
           /\ Len(month) \in {1, 2} /\ digits(month)
           /\ Len(day) \in {1, 2} /\ digits(day)
        THEN DateString(ParseInt(year), ParseInt(month), ParseInt(day))
        ELSE DateString(0, 0, 0)

\* the handler of the try (862-869): always HTTP 500
export_ics_except(msg) ==
    Respond(500, [success |-> FALSE,
                  error |-> <<"[error while exporting the ICS file: ]">> \o msg])

\* lines 823-838: validation.  Gives the response when the request ends
\* here, else the arguments of parse_plan_to_ics.
export_ics_begin(req) ==
    IF ~req.is_json
    THEN [done |-> TRUE, response |-> Respond(400, [success |-> FALSE,
            error |-> <<"[bad request format, JSON is needed]">>])]
    ELSE IF req.json.t # "obj"
    THEN [done |-> TRUE, response |-> export_ics_except(
            PyTypeQuoted(req.json) \o <<" ", "o", "b", "j", "e", "c", "t",
                " ", "h", "a", "s", " ", "n", "o", " ", "a", "t", "t", "r",
                "i", "b", "u", "t", "e", " ", "'", "g", "e", "t", "'">>)]
    ELSE
      LET data == req.json
          plan == DictGet(data, "plan", JStr(<<>>))
          destination == DictGet(data, "destination", JStr(<<"T", "r", "a",
              "v", "e", "l", " ", "P", "l", "a", "n">>))
          start == DictGet(data, "start_date", JNull)
      IN  IF ~Truthy(plan)
          THEN [done |-> TRUE, response |-> Respond(400, [success |-> FALSE,
                  error |-> <<"[the plan is empty]">>])]
          ELSE [done |-> FALSE, plan |-> plan, destination |-> destination,
                start |-> start]

\* parse_plan_to_ics as export_ics calls it (841), with the values of the
\* JSON body as they are: a start_date that is no string makes strptime
\* raise TypeError, a plan that is no string has no split
export_ics_parse(plan, destination, start, clock) ==
    LET date == IF ~Truthy(start) THEN NoStartDate
                ELSE start_date_fields(start.s)
    IN  IF Truthy(start) /\ start.t # "str" THEN Raised("TypeError")
        ELSE IF date.given /\ ~IsValidDate(date) THEN Raised("ValueError")
        ELSE IF plan.t # "str" THEN Raised("AttributeError")
        ELSE parse_plan_to_ics(plan.s, Fmt(destination), date, clock)

\* lines 844-869 for the calendar that was built, or the exception raised
export_ics_respond(result, destination) ==
    IF result.status = "raised"
    THEN export_ics_except(<<"[">>  \o <<result.exc>> \o <<"]">>)
    ELSE IF destination.t # "str"
    THEN export_ics_except(
            PyTypeQuoted(destination) \o <<" ", "o", "b", "j", "e", "c", "t",
                " ", "h", "a", "s", " ", "n", "o", " ", "a", "t", "t", "r",
                "i", "b", "u", "t", "e", " ", "'", "r", "e", "p", "l", "a",
                "c", "e", "'">>)
    ELSE Respond(200, [mimetype |-> "text/calendar",
                       events |-> result.events])

(***************************************************************************)
(* search_destination_info (208-260).                                      *)
(***************************************************************************)
\* search_queries (213-220)
SearchQueries(destination, days, preferences) ==
    << destination \o <<" ">> \o days
            \o <<"[days travel guide, recommended sights]">>,
       destination \o <<"[ recommended food, restaurants]">>,
       destination \o <<"[ recommended lodging, hotels]">> >>
    \o (IF preferences # <<>>
        THEN << destination \o <<" ">> \o preferences >>
        ELSE <<>>)

\* the loop of 228-233 from position k on: the results whose link was not
\* seen before, in order
RECURSIVE unique_by_link_kept_last(_, _, _, _)
unique_by_link_kept_last(results, k, seen_links, unique) ==
    IF k > Len(results) THEN unique
    ELSE IF results[k].link \in seen_links
    THEN unique_by_link_kept_last(results, k + 1, seen_links,
            [i \in 1..Len(unique) |->
                IF unique[i].link = results[k].link THEN results[k]
                ELSE unique[i]])
    ELSE unique_by_link_kept_last(results, k + 1,
            seen_links \cup {results[k].link}, Append(unique, results[k]))

RECURSIVE unique_by_link(_, _, _, _)
unique_by_link(results, k, seen_links, unique) ==
    IF k > Len(results) THEN unique
    ELSE IF results[k].link \in seen_links
    THEN unique_by_link(results, k + 1, seen_links, unique)
    ELSE unique_by_link(results, k + 1, seen_links \cup {results[k].link},
                        Append(unique, results[k]))

ExtractLimit == 5       \* unique_results[:5]

\* one iteration of the loop of 243-256 for one answer of the page; a
\* result whose page gave nothing is dropped
enrich_or_drop(enriched, result, fetch) ==
    LET content == extract_webpage_content(fetch, 1500)
    IN  IF content.ok /\ Truthy(content.value)
        THEN Append(enriched, WithContent(result, content.value.s))
        ELSE enriched

\* one iteration of the loop of 243-256 for one answer of the page
enrich(enriched, result, fetch) ==
    LET content == extract_webpage_content(fetch, 1500)
    IN  IF content.ok /\ Truthy(content.value)
        THEN Append(enriched, WithContent(result, content.value.s))
        ELSE Append(enriched, result)

\* what a function returned
ReturnedValue(v) == [status |-> "returned", value |-> v]

(***************************************************************************)
(* split_text_into_chunks (src/rag_utils.py 120-166).                      *)
(***************************************************************************)
\* the k-th smallest member of a set of positions
Kth(S, k) == CHOOSE p \in S : Cardinality({q \in S : q <= p}) = k

\* text.split('\n\n'): the pieces between the non-overlapping occurrences
\* of two newlines, found from the left: in a run of newlines the first and
\* second, the third and fourth, ... are separators
split_paragraphs(s) ==
    LET run_start(i) ==
            SetMax({1} \cup {j + 1 : j \in {n \in 1..(i - 1) : s[n] # "\n"}})
        seps == {i \in 1..(Len(s) - 1) :
                    /\ s[i] = "\n"
                    /\ s[i + 1] = "\n"
                    /\ (i - run_start(i)) % 2 = 0}
        from(k) == IF k = 1 THEN 1 ELSE Kth(seps, k - 1) + 2
        to(k) == IF k = Cardinality(seps) + 1 THEN Len(s)
                 ELSE Kth(seps, k) - 1
    IN  [k \in 1..(Cardinality(seps) + 1) |-> SubSeq(s, from(k), to(k))]

\* para.split(): the maximal runs of characters that are no whitespace
split_words(s) ==
    LET starts == {i \in 1..Len(s) :
                    ~IsSpace(s[i]) /\ (i = 1 \/ IsSpace(s[i - 1]))}
        ends == {i \in 1..Len(s) :
                    ~IsSpace(s[i]) /\ (i = Len(s) \/ IsSpace(s[i + 1]))}
    IN  [k \in 1..Cardinality(starts) |->
            SubSeq(s, Kth(starts, k), Kth(ends, k))]

\* the test of line 136 without the two characters of the separator
fits_paragraph_without_separator(current_chunk, para, size) ==
    Len(current_chunk) + Len(para) <= size

\* the test of line 136
fits_paragraph(current_chunk, para, size) ==
    Len(current_chunk) + Len(para) + 2 <= size

\* the loop of 150-156 from the k-th word on, where a full temp_chunk is
\* replaced without being saved
RECURSIVE pack_words_unsaved(_, _, _, _, _)
pack_words_unsaved(words, k, saved, temp_chunk, size) ==
    IF k > Len(words) THEN [chunks |-> saved, temp_chunk |-> temp_chunk]
    ELSE IF Len(temp_chunk) + Len(words[k]) + 1 <= size
    THEN pack_words_unsaved(words, k + 1, saved,
            IF temp_chunk # <<>> THEN temp_chunk \o <<" ">> \o words[k]
            ELSE words[k], size)
    ELSE pack_words_unsaved(words, k + 1, saved, words[k], size)

\* the loop of 150-156 from the k-th word on
RECURSIVE pack_words(_, _, _, _, _)
pack_words(words, k, saved, temp_chunk, size) ==
    IF k > Len(words) THEN [chunks |-> saved, temp_chunk |-> temp_chunk]
    ELSE IF Len(temp_chunk) + Len(words[k]) + 1 <= size
    THEN pack_words(words, k + 1, saved,
            IF temp_chunk # <<>> THEN temp_chunk \o <<" ">> \o words[k]
            ELSE words[k], size)
    ELSE pack_words(words, k + 1,
            IF temp_chunk # <<>> THEN Append(saved, temp_chunk) ELSE saved,
            words[k], size)

\* one iteration of the loop over the paragraphs (130-160)
add_paragraph(st, raw_para, size) ==
    LET para == strip(raw_para)
    IN  IF para = <<>> THEN st
        ELSE IF fits_paragraph(st.current_chunk, para, size)
        THEN [st EXCEPT !.current_chunk =
                IF st.current_chunk # <<>>
                THEN st.current_chunk \o <<"\n", "\n">> \o para
                ELSE para]
        ELSE
          LET saved == IF st.current_chunk # <<>>
                       THEN Append(st.chunks, st.current_chunk)
                       ELSE st.chunks
          IN  IF Len(para) > size
              THEN LET packed == pack_words(split_words(para),
                                            1, saved, <<>>, size)
                   IN  [chunks |-> packed.chunks,
                        current_chunk |->
                            IF packed.temp_chunk # <<>>
                            THEN packed.temp_chunk
                            ELSE st.current_chunk]
              ELSE [chunks |-> saved, current_chunk |-> para]

RECURSIVE add_paragraphs(_, _, _, _)
add_paragraphs(st, paragraphs, k, size) ==
    IF k > Len(paragraphs) THEN st
    ELSE add_paragraphs(add_paragraph(st, paragraphs[k], size), paragraphs,
                        k + 1, size)

split_text_into_chunks(s, size) ==
    IF s = <<>> THEN <<>>
    ELSE
      LET st == add_paragraphs([chunks |-> <<>>, current_chunk |-> <<>>],
                               split_paragraphs(s), 1, size)
      IN  IF st.current_chunk # <<>>
          THEN Append(st.chunks, st.current_chunk)
          ELSE st.chunks

(***************************************************************************)
(* clean_text (src/rag_utils.py 86-117).  A code point of the emoji        *)
(* ranges of 100-108 is written as one atom.                               *)
(***************************************************************************)
EmojiAtoms == {"U+1F600"}
\* the code points written as atoms: Chinese characters and full-width
\* punctuation
CjkCodePoints ==
    [c \in {"U+53BB", "U+65C5", "U+6E38", "U+5929", "U+4E2D", "U+76EE",
            "U+7684", "U+5730", "U+FF1A", "U+FF0C", "U+884C", "U+73A9",
            "U+653B", "U+7565", "U+70B9", "U+672A", "U+77E5"} |->
        CASE c = "U+53BB" -> 21435 [] c = "U+65C5" -> 26053
          [] c = "U+884C" -> 34892 [] c = "U+73A9" -> 29609
          [] c = "U+653B" -> 25915 [] c = "U+7565" -> 30053
          [] c = "U+70B9" -> 28857 [] c = "U+672A" -> 26410
          [] c = "U+77E5" -> 30693
          [] c = "U+6E38" -> 28216 [] c = "U+5929" -> 22825
          [] c = "U+4E2D" -> 20013 [] c = "U+76EE" -> 30446
          [] c = "U+7684" -> 30340 [] c = "U+5730" -> 22320
          [] c = "U+FF1A" -> 65306 [] c = "U+FF0C" -> 65292]
\* ord(c)
CodePoint(c) ==
    CASE c \in DOMAIN CjkCodePoints -> CjkCodePoints[c]
      [] c = "U+1F600" -> 128512
      [] c = "\t" -> 9 [] c = "\n" -> 10 [] c = "\f" -> 12 [] c = "\r" -> 13
      [] c = " " -> 32 [] c = "," -> 44 [] c = ":" -> 58
      [] IsDigit(c) -> 48 + DigitVal(c)
      [] c = "R" -> 82
      [] c = "a" -> 97 [] c = "b" -> 98
\* the ranges of emoji_pattern (102-107) as pairs of code points
EmojiRanges ==
    {<<128512, 128591>>, <<127744, 128511>>, <<128640, 128767>>,
     <<127456, 127487>>, <<9986, 10160>>, <<9410, 127569>>}
IsEmoji(c) ==
    \E r \in EmojiRanges : r[1] <= CodePoint(c) /\ CodePoint(c) <= r[2]
\* [\x00-\x08\x0b-\x0c\x0e-\x1f\x7f-\x9f]: the form feed is \x0c
IsControl(c) == c \in {"\f"}
IsBlank(c) == c \in {" ", "\t"}
NotEmoji(c) == ~IsEmoji(c)
NotControl(c) == ~IsControl(c)

\* re.sub(r'[ \t]+', ' ', text): of a run of spaces and tabs the first
\* character stays, as a space
collapse_blanks(s) ==
    LET kept(i) == ~(IsBlank(s[i]) /\ i > 1 /\ IsBlank(s[i - 1]))
        idx == SelectSeq([i \in 1..Len(s) |-> i], kept)
    IN  [k \in 1..Len(idx) |-> IF IsBlank(s[idx[k]]) THEN " " ELSE s[idx[k]]]

\* re.sub(r'\n{3,}', '\n\n', text): of a run of newlines the first two
\* stay
collapse_newlines(s) ==
    LET kept(i) == ~(/\ s[i] = "\n"
                     /\ i > 2
                     /\ s[i - 1] = "\n"
                     /\ s[i - 2] = "\n")
        idx == SelectSeq([i \in 1..Len(s) |-> i], kept)
    IN  [k \in 1..Len(idx) |-> s[idx[k]]]

clean_text(s) ==
    IF s = <<>> THEN <<>>
    ELSE strip(SelectSeq(SelectSeq(
            collapse_newlines(collapse_blanks(s)), NotEmoji), NotControl))

(***************************************************************************)
(* The vector store of src/rag_utils.py: init_rag_system (43-83),          *)
(* store_guide_to_vector_db (393-445), search_similar_content (448-491).   *)
(* What the vector database and the embedding library answer is an input.  *)
(***************************************************************************)
\* None
None == [t |-> "none"]

\* chromadb.PersistentClient(path=CHROMA_DB_PATH, ...)
PersistentClient == [t |-> "client", path |-> "chroma_db"]
FirstModel == [t |-> "model", name |-> "paraphrase-multilingual-MiniLM-L12-v2"]
DefaultModel == [t |-> "model", name |-> "all-MiniLM-L6-v2"]

\* the globals after a call of init_rag_system, what it returns, and how
\* many clients and embedding models the call constructed; lib tells which
\* of the library calls succeed
init_rag_system(available, db, model, lib) ==
    IF ~available
    THEN [vector_db |-> db, embedding_model |-> model, result |-> FALSE,
          clients |-> 0, models |-> 0]
    ELSE IF ~lib.client
    THEN [vector_db |-> db, embedding_model |-> model, result |-> FALSE,
          clients |-> 0, models |-> 0]
    ELSE IF ~lib.get_collection /\ ~lib.create_collection
    THEN [vector_db |-> PersistentClient, embedding_model |-> model,
          result |-> FALSE, clients |-> 1, models |-> 0]
    ELSE IF lib.first_model
    THEN [vector_db |-> PersistentClient, embedding_model |-> FirstModel,
          result |-> TRUE, clients |-> 1, models |-> 1]
    ELSE IF lib.default_model
    THEN [vector_db |-> PersistentClient, embedding_model |-> DefaultModel,
          result |-> TRUE, clients |-> 1, models |-> 1]
    ELSE [vector_db |-> PersistentClient, embedding_model |-> model,
          result |-> FALSE, clients |-> 1, models |-> 0]

\* `if not vector_db or not embedding_model` (399, 454)
rag_uninitialized(db, model) == db = None \/ model = None

TicksPerSecond == 2    \* the clock counts half seconds

\* datetime.now().strftime('%Y%m%d_%H%M%S'): the time cut to the second
Timestamp(clock) == FormatInt(clock \div TicksPerSecond)

\* the ids of lines 418-430 for n chunks: f"{base_id}_chunk_{i}", i from 0
chunk_ids(clock, n) ==
    [k \in 1..n |->
        <<"g", "u", "i", "d", "e", "_">> \o Timestamp(clock)
            \o <<"_", "c", "h", "u", "n", "k", "_">> \o FormatInt(k - 1)]

\* collection.add(...) on the stored records: with an id that is already
\* stored the library either raises or leaves the stored record alone
collection_add(stored, ids, documents, lib) ==
    LET taken == {stored[k].id : k \in 1..Len(stored)}
        fresh(k) == ids[k] \notin taken
        idx == SelectSeq([k \in 1..Len(ids) |-> k], fresh)
    IN  IF ~lib.add \/ (Len(idx) < Len(ids) /\ lib.duplicate_error)
        THEN [collection |-> stored, result |-> FALSE]
        ELSE [collection |->
                stored \o [k \in 1..Len(idx) |->
                            [id |-> ids[idx[k]], document |-> documents[idx[k]]]],
              result |-> TRUE]

\* the records of the collection after store_guide_to_vector_db, what it
\* returns and the ids it generated; lib tells which of the library calls
\* succeed
store_guide_to_vector_db(db, model, stored, processed_data, clock, lib) ==
    IF rag_uninitialized(db, model)
    THEN [collection |-> stored, result |-> FALSE, ids |-> <<>>]
    ELSE IF ~lib.get_collection
    THEN [collection |-> stored, result |-> FALSE, ids |-> <<>>]
    ELSE IF processed_data = None
    THEN [collection |-> stored, result |-> FALSE, ids |-> <<>>]
    ELSE IF "chunks" \notin DOMAIN processed_data \/ processed_data.chunks = <<>>
    THEN [collection |-> stored, result |-> FALSE, ids |-> <<>>]
    ELSE IF ~lib.encode
    THEN [collection |-> stored, result |-> FALSE, ids |-> <<>>]
    ELSE LET ids == chunk_ids(clock, Len(processed_data.chunks))
             added == collection_add(stored, ids, processed_data.chunks, lib)
         IN  [collection |-> added.collection, result |-> added.result,
              ids |-> ids]

\* what search_similar_content returns; found is the answer of
\* collection.query, at most min(n_results, 10) documents
search_similar_content(db, model, n_results, lib, found) ==
    IF rag_uninitialized(db, model) THEN <<>>
    ELSE IF ~lib.get_collection \/ ~lib.encode \/ ~lib.query THEN <<>>
    ELSE [i \in 1..Len(found) |->
            [content |-> found[i].document,
             metadata |-> [source |-> "xiaohongshu"]]]

(***************************************************************************)
(* process_xiaohongshu_guide (src/rag_utils.py 169-211).  A Chinese        *)
(* character is written as the atom of its code point.                     *)
(***************************************************************************)
\* the literal lit is in s at position i
HasAt(s, i, lit) ==
    i >= 1 /\ i + Len(lit) - 1 <= Len(s) /\ SubSeq(s, i, i + Len(lit) - 1) = lit

\* (?:U+65C5U+6E38|U+65C5U+884C|U+6E38U+73A9|U+653BU+7565)
TourWords ==
    {<<"U+65C5", "U+6E38">>, <<"U+65C5", "U+884C">>, <<"U+6E38", "U+73A9">>,
     <<"U+653B", "U+7565">>}
TourWordAt(s, i) == \E w \in TourWords : HasAt(s, i, w)
TourWordPositions(s) == {t \in 1..Len(s) : TourWordAt(s, t)}

\* "." matches every character of s from i to j: none is a newline
SameLine(s, i, j) == \A k \in i..j : s[k] # "\n"
\* the first position of the line that holds position t
LineStart(s, t) ==
    SetMax({1} \cup {k + 1 : k \in {n \in 1..(t - 1) : s[n] = "\n"}})
\* the last position of the line that holds position t
LineEnd(s, t) ==
    SetMin({Len(s)} \cup {k - 1 : k \in {n \in t..Len(s) : s[n] = "\n"}})

NoMatch == [matched |-> FALSE]
Match(group) == [matched |-> TRUE, group1 |-> group]

\* re.search(r'U+53BB(.+?)(?:U+65C5U+6E38|U+65C5U+884C|U+6E38U+73A9|U+653BU+7565)', s)
search_go_to(s) ==
    LET ends(i) == {t \in TourWordPositions(s) :
                        t >= i + 2 /\ SameLine(s, i + 1, t - 1)}
        starts == {i \in 1..Len(s) : s[i] = "U+53BB" /\ ends(i) # {}}
    IN  IF starts = {} THEN NoMatch
        ELSE LET i == SetMin(starts)
             IN  Match(SubSeq(s, i + 1, SetMin(ends(i)) - 1))

\* re.search(r'(.+?)(?:U+65C5U+6E38|U+65C5U+884C|U+6E38U+73A9|U+653BU+7565)', s)
search_before_tour(s) ==
    LET found == {t \in TourWordPositions(s) : LineStart(s, t) <= t - 1}
    IN  IF found = {} THEN NoMatch
        ELSE LET i == SetMin({LineStart(s, t) : t \in found})
                 t == SetMin({u \in found : u > i /\ SameLine(s, i, u - 1)})
             IN  Match(SubSeq(s, i, t - 1))

\* re.search(label + r'[U+FF1A:]\s*(.+)', s): after the colon the whitespace is
\* skipped as far as a character that is no newline is left for the group
search_label(s, label) ==
    LET first(i) == i + Len(label) + 1
        skips(i) == {t \in 0..(SpaceRunEnd(s, first(i)) - first(i) + 1) :
                        first(i) + t <= Len(s) /\ s[first(i) + t] # "\n"}
        starts == {i \in 1..Len(s) :
                    /\ HasAt(s, i, label)
                    /\ i + Len(label) <= Len(s)
                    /\ s[i + Len(label)] \in {"U+FF1A", ":"}
                    /\ skips(i) # {}}
    IN  IF starts = {} THEN NoMatch
        ELSE LET i == SetMin(starts)
                 from == first(i) + SetMax(skips(i))
             IN  Match(SubSeq(s, from, LineEnd(s, from)))

\* destination_patterns (182-187) in their order
destination_matches(s) ==
    <<search_go_to(s), search_before_tour(s),
      search_label(s, <<"U+76EE", "U+7684", "U+5730">>),
      search_label(s, <<"U+5730", "U+70B9">>)>>

\* the loop of 189-193: the group of the first pattern that matches,
\* stripped, or ''
extract_destination(s) ==
    LET ms == destination_matches(s)
        hits == {k \in 1..Len(ms) : ms[k].matched}
    IN  IF hits = {} THEN <<>> ELSE strip(ms[SetMin(hits)].group1)

\* re.search(r'(\d+)\s*U+5929', s) and lines 196-198
extract_days(s) ==
    LET starts == {i \in 1..Len(s) :
                    /\ IsDigit(s[i])
                    /\ HasAt(s, SpaceRunEnd(s, DigitRunEnd(s, i) + 1) + 1,
                             <<"U+5929">>)}
    IN  IF starts = {} THEN <<>>
        ELSE SubSeq(s, SetMin(starts), DigitRunEnd(s, SetMin(starts)))

\* the sentinel U+672A U+77E5
Unknown == <<"U+672A", "U+77E5">>
SearchPrefix == 500       \* cleaned_text[:500]
DefaultChunkSize == 500   \* split_text_into_chunks(text, chunk_size=500)

\* the dictionary process_xiaohongshu_guide returns; clock is datetime.now()
process_xiaohongshu_guide(s, title, clock) ==
    LET cleaned == clean_text(s)
        destination == extract_destination(Prefix(cleaned, SearchPrefix))
        days == extract_days(Prefix(cleaned, SearchPrefix))
        parts == split_text_into_chunks(cleaned, DefaultChunkSize)
    IN  [text |-> cleaned,
         chunks |-> parts,
         title |-> title,
         destination |-> IF destination # <<>> THEN destination ELSE Unknown,
         days |-> IF days # <<>> THEN days ELSE Unknown,
         chunk_count |-> Len(parts),
         processed_at |-> clock]

(***************************************************************************)
(* What comes from outside: request bodies, configuration, and the answers *)
(* of the model servers, the search API and the fetched pages.             *)
(***************************************************************************)
Absent == [t |-> "absent"]

\* the JSON object that holds the fields of opts that are not Absent
ObjectOf(opts) ==
    JObj([k \in {f \in DOMAIN opts : opts[f] # Absent} |-> opts[k]])

PlanBodies ==
    {JNull, JList(1)} \cup
    {ObjectOf([days |-> d, destination |-> dest, budget |-> b,
               preferences |-> p, llm_mode |-> m]) :
        d \in {Absent, JStr(<<>>), JStr(<<"3">>), JNum(0)},
        dest \in {Absent, JStr(<<>>), JStr(<<"R", "o", "m", "e">>)},
        b \in {Absent, JStr(<<"l", "o", "w">>)},
        p \in {Absent, JStr(<<"a", "r", "t">>)},
        m \in {Absent, JNull, JStr(<<>>), JStr(<<"l", "o", "c", "a",
            "l">>), JStr(<<"L", "O", "C", "A", "L">>),
               JStr(<<"c", "l", "o", "u", "d">>)}}

SearchBodies ==
    {JNull, JList(1), ObjectOf([query |-> JStr(<<>>)]),
     ObjectOf([query |-> JStr(<<"q">>)])}

Requests(route, bodies) ==
    {[route |-> route, is_json |-> FALSE, json |-> JNull]} \cup
    {[route |-> route, is_json |-> TRUE, json |-> b] : b \in bodies}

\* os.getenv('LLM_MODE', 'cloud')
EnvModes == {<<"c", "l", "o", "u", "d">>, <<"L", "o", "c", "a", "l">>}
\* os.getenv('OLLAMA_MODEL', 'llama3.2')
EnvModels == {<<"m", "1", ":", "b">>, <<"m", "4", "2", "9">>}
DefaultGoogleKey == <<"A", "I", "z", "a">>
DefaultEngineId == <<"5", "2", "9", "9">>

\* the installed models the tag endpoint may list
InstalledLists ==
    { <<>>, <<<<"m", "2">>>>, <<<<"m", "1", ":", "a">>, <<"m",
        "2">>>>, <<<<"m", "1", ":", "b">>>>, <<<<"m", "4", "2", "9">>>> }

TagsAnswers ==
    {[kind |-> "connection_error"], [kind |-> "timeout"], [kind |-> "bad_json"]}
    \cup {[kind |-> "http_error", status |-> s] : s \in {401, 500}}
    \cup {[kind |-> "ok", names |-> l] : l \in InstalledLists}

ChatAnswers ==
    {[kind |-> "connection_error"], [kind |-> "timeout"], [kind |-> "bad_json"],
     [kind |-> "no_message"]}
    \cup {[kind |-> "http_error", status |-> s] : s \in {401, 404, 429, 500}}
    \cup {[kind |-> "content", content |-> c] : c \in {<<>>, <<"D", "a", "y",
        " ", "1", ":">>}}

\* what client.chat.completions.create raises, by the kind of failure
ProviderErrors ==
    { [class |-> "auth", msg |-> <<"E", "r", "r", "o", "r", " ", "c", "o",
        "d", "e", ":", " ", "4", "0", "1", " ", "-", " ", "i", "n", "v", "a",
        "l", "i", "d", " ", "k", "e", "y">>],
      [class |-> "rate_limit", msg |-> <<"E", "r", "r", "o", "r", " ", "c",
          "o", "d", "e", ":", " ", "4", "2", "9", " ", "-", " ", "s", "l",
          "o", "w", " ", "d", "o", "w", "n">>],
      [class |-> "timeout", msg |-> <<"R", "e", "q", "u", "e", "s", "t", " ",
          "t", "i", "m", "e", "d", " ", "o", "u", "t", ".">>],
      [class |-> "connection", msg |-> <<"C", "o", "n", "n", "e", "c", "t",
          "i", "o", "n", " ", "e", "r", "r", "o", "r", ".">>],
      [class |-> "bad_request", msg |-> <<"E", "r", "r", "o", "r", " ", "c",
          "o", "d", "e", ":", " ", "4", "0", "0", " ", "-", " ", "4", "2",
          "9", "1", " ", "t", "o", "k", "e", "n", "s">>],
      [class |-> "server", msg |-> <<"E", "r", "r", "o", "r", " ", "c", "o",
          "d", "e", ":", " ", "5", "0", "0", " ", "-", " ", "o", "v", "e",
          "r", "l", "o", "a", "d", "e", "d">>] }

HostedAnswers ==
    {[kind |-> "raise", class |-> e.class, msg |-> e.msg] : e \in ProviderErrors}
    \cup {[kind |-> "response", choices |-> 0, content |-> JNull,
           finish_reason |-> "stop"]}
    \cup {[kind |-> "response", choices |-> 1, content |-> c,
           finish_reason |-> f] :
            c \in {JNull, JStr(<<>>), JStr(<<"D", "a", "y", " ", "1",
                ":">>)}, f \in {"stop", "length"}}

NumResults == 5     \* google_search(query, num_results=5)

\* the items of the search API's answer; the second one has no title
SearchItem(i) ==
    IF i = 2
    THEN [snippet |-> <<"S", Digits[i + 1]>>, link |-> <<"L", Digits[i + 1]>>]
    ELSE [title |-> <<"T", Digits[i + 1]>>, snippet |-> <<"S", Digits[i + 1]>>,
          link |-> <<"L", Digits[i + 1]>>]

SearchAnswers ==
    {[kind |-> "connection_error"], [kind |-> "timeout"], [kind |-> "http_error"]}
    \cup {[kind |-> "ok", items |-> [i \in 1..n |-> SearchItem(i)]] :
            n \in 0..NumResults}

PageFetches ==
    {[kind |-> "status", status |-> s] : s \in {403, 404, 500}}
    \cup {[kind |-> "network_error"], [kind |-> "parse_error"]}
    \cup {[kind |-> "ok", text |-> t] : t \in {<<>>, <<"C", "o", "l", "o",
        "s", "s", "e", "u", "m">>}}

(***************************************************************************)
(* The state machine.                                                      *)
(***************************************************************************)
NoRequest == [route |-> "none"]

IcsIdle ==
    /\ plan_text = <<>>
    /\ ics_destination = <<>>
    /\ start_date = NoStartDate
    /\ now \in Clocks
    /\ calendar = [status |-> "unused"]

HandlerIdle ==
    /\ llm_mode = <<>>
    /\ prompt = <<>>
    /\ search_results = <<>>
    /\ enriched_results = <<>>
    /\ api_error = NoError
    /\ calls = <<>>
    /\ response = NoResponse

AggIdle ==
    /\ search_queries = <<>>
    /\ all_results = <<>>
    /\ unique_results = <<>>
    /\ aggregated = Pending

TextIdle ==
    /\ raw_text = <<>>
    /\ chunk_size = 0
    /\ cleaned_text = Pending
    /\ chunks = Pending
    /\ guide = Pending

RagIdle ==
    /\ CHROMADB_AVAILABLE = TRUE
    /\ vector_db = None
    /\ embedding_model = None
    /\ collection = <<>>
    /\ last_init = None
    /\ rag_return = None
    /\ rag_clock = 0
    /\ id_batches = <<>>
    /\ constructed = [clients |-> 0, models |-> 0]

LibIdle == AggIdle /\ TextIdle /\ RagIdle

InitIcs ==
    /\ plan_text \in PlanTexts
    /\ ics_destination \in Destinations
    /\ start_date \in StartDates
    /\ now \in Clocks
    /\ calendar = Pending
    /\ LLM_MODE = <<"c", "l", "o", "u", "d">>
    /\ OLLAMA_MODEL = <<"m", "1", ":", "b">>
    /\ GOOGLE_API_KEY = DefaultGoogleKey
    /\ GOOGLE_SEARCH_ENGINE_ID = DefaultEngineId
    /\ request = NoRequest
    /\ pc = "idle"
    /\ HandlerIdle
    /\ LibIdle

ParsePlanToIcs ==
    /\ calendar = Pending
    /\ calendar' = parse_plan_to_ics(plan_text, ics_destination, start_date, now)
    /\ UNCHANGED <<plan_text, ics_destination, start_date, now>>
    /\ UNCHANGED <<config_vars, api_vars, lib_vars>>

NextIcs == ParsePlanToIcs

SpecIcs == InitIcs /\ [][NextIcs]_vars

InitApi ==
    /\ IcsIdle
    /\ HandlerIdle
    /\ LibIdle
    /\ pc = "received"
    /\ \/ /\ request \in Requests("generate-plan", PlanBodies)
          /\ LLM_MODE \in {Lower(m) : m \in EnvModes}
          /\ OLLAMA_MODEL \in EnvModels
          /\ GOOGLE_API_KEY = DefaultGoogleKey
          /\ GOOGLE_SEARCH_ENGINE_ID = DefaultEngineId
       \/ /\ request \in Requests("search", SearchBodies)
          /\ LLM_MODE = <<"c", "l", "o", "u", "d">>
          /\ OLLAMA_MODEL = <<"m", "1", ":", "b">>
          /\ GOOGLE_API_KEY \in {<<>>, DefaultGoogleKey}
          /\ GOOGLE_SEARCH_ENGINE_ID \in {<<>>, DefaultEngineId}

Finish(resp) == response' = resp /\ pc' = "done"

\* generate_plan up to the model call
GeneratePlanBegin ==
    /\ pc = "received" /\ request.route = "generate-plan"
    /\ LET b == generate_plan_begin(request, LLM_MODE)
       IN  IF b.done
           THEN /\ Finish(b.response)
                /\ UNCHANGED <<llm_mode, prompt>>
           ELSE /\ llm_mode' = b.llm_mode
                /\ prompt' = b.prompt
                /\ pc' = IF b.llm_mode = <<"l", "o", "c", "a",
                    "l">> THEN "preflight" ELSE "hosted"
                /\ UNCHANGED response
    /\ UNCHANGED <<request, search_results, enriched_results, api_error, calls>>
    /\ UNCHANGED <<ics_vars, config_vars, lib_vars>>

\* call_local_llm: the preflight, and the end of the request when it fails
CheckOllamaConnection ==
    /\ pc = "preflight"
    /\ \E tags \in TagsAnswers :
        LET r == call_local_llm_preflight(OLLAMA_MODEL, tags)
        IN  /\ calls' = Append(calls, Call("ollama_tags", TagsUrl, tags))
            /\ IF r.ok
               THEN pc' = "chat" /\ UNCHANGED <<api_error, response>>
               ELSE /\ api_error' = r.exc
                    /\ Finish(generate_plan_except(r.exc))
    /\ UNCHANGED <<request, llm_mode, prompt, search_results, enriched_results>>
    /\ UNCHANGED <<ics_vars, config_vars, lib_vars>>

\* the chat call, issued again after a failure, up to three calls in all
OllamaChat_retrying ==
    /\ pc = "chat"
    /\ \E chat \in ChatAnswers :
        LET r == call_local_llm_chat(OLLAMA_MODEL, chat)
        IN  /\ calls' = Append(calls, Call("ollama_chat", ChatUrl, chat))
            /\ IF r.ok
               THEN Finish(PlanResponse(JStr(r.value))) /\ UNCHANGED api_error
               ELSE IF Len(calls) < 3
               THEN pc' = "chat" /\ UNCHANGED <<api_error, response>>
               ELSE /\ api_error' = r.exc
                    /\ Finish(generate_plan_except(r.exc))
    /\ UNCHANGED <<request, llm_mode, prompt, search_results, enriched_results>>
    /\ UNCHANGED <<ics_vars, config_vars, lib_vars>>

\* call_local_llm: the chat call, and the rest of generate_plan
OllamaChat ==
    /\ pc = "chat"
    /\ \E chat \in ChatAnswers :
        LET r == call_local_llm_chat(OLLAMA_MODEL, chat)
        IN  /\ calls' = Append(calls, Call("ollama_chat", ChatUrl, chat))
            /\ IF r.ok
               THEN Finish(PlanResponse(JStr(r.value))) /\ UNCHANGED api_error
               ELSE /\ api_error' = r.exc
                    /\ Finish(generate_plan_except(r.exc))
    /\ UNCHANGED <<request, llm_mode, prompt, search_results, enriched_results>>
    /\ UNCHANGED <<ics_vars, config_vars, lib_vars>>

\* the hosted completion call, and the rest of generate_plan
HostedPlanCompletion ==
    /\ pc = "hosted" /\ request.route = "generate-plan"
    /\ \E completion \in HostedAnswers :
        LET r == hosted_plan_result(completion, request.json.fields["days"])
        IN  /\ calls' = Append(calls,
                    Call("hosted_completion", <<"d", "e", "e", "p", "s", "e",
                        "e", "k", "-", "c", "h", "a", "t">>, completion))
            /\ IF r.ok
               THEN Finish(PlanResponse(r.value)) /\ UNCHANGED api_error
               ELSE /\ api_error' = r.exc
                    /\ Finish(generate_plan_except(r.exc))
    /\ UNCHANGED <<request, llm_mode, prompt, search_results, enriched_results>>
    /\ UNCHANGED <<ics_vars, config_vars, lib_vars>>

\* search up to the search call
SearchBegin ==
    /\ pc = "received" /\ request.route = "search"
    /\ LET b == search_begin(request, GOOGLE_API_KEY, GOOGLE_SEARCH_ENGINE_ID)
       IN  IF b.done
           THEN Finish(b.response)
           ELSE pc' = "search" /\ UNCHANGED response
    /\ UNCHANGED <<request, llm_mode, prompt, search_results, enriched_results,
                   api_error, calls>>
    /\ UNCHANGED <<ics_vars, config_vars, lib_vars>>

\* search_results = google_search(query, num_results=5) and lines 478-482
GoogleSearch ==
    /\ pc = "search"
    /\ \E answer \in SearchAnswers :
        LET r == google_search(GOOGLE_API_KEY, GOOGLE_SEARCH_ENGINE_ID, answer)
        IN  /\ calls' =
                 IF SearchCallMade(GOOGLE_API_KEY, GOOGLE_SEARCH_ENGINE_ID)
                 THEN Append(calls, Call("google_search",
                                         request.json.fields["query"].s, answer))
                 ELSE calls
            /\ IF ~r.ok
               THEN /\ Finish(search_outer_except(r.exc))
                    /\ UNCHANGED search_results
               ELSE IF r.value = <<>>
               THEN /\ Finish(NoResultsResponse)
                    /\ UNCHANGED search_results
               ELSE /\ search_results' = r.value
                    /\ pc' = "extract"
                    /\ UNCHANGED response
    /\ UNCHANGED <<request, llm_mode, prompt, enriched_results, api_error>>
    /\ UNCHANGED <<ics_vars, config_vars, lib_vars>>

\* one iteration of the extraction loop (490-506)
ExtractPage ==
    /\ pc = "extract"
    /\ \E fetch \in PageFetches :
        LET i == Len(enriched_results) + 1
            result == search_results[i]
        IN  /\ calls' = Append(calls, Call("page_fetch", result.link, fetch))
            /\ enriched_results' =
                 Append(enriched_results, ExtractStep(result, fetch))
            /\ pc' = IF i = MaxExtract(search_results) THEN "summarize"
                     ELSE "extract"
    /\ UNCHANGED <<request, llm_mode, prompt, search_results, api_error,
                   response>>
    /\ UNCHANGED <<ics_vars, config_vars, lib_vars>>

\* the summarization call (512-582)
Summarize ==
    /\ pc = "summarize"
    /\ \E completion \in HostedAnswers :
        LET r == summary_result(completion)
        IN  /\ prompt' = SummaryPrompt(request.json.fields["query"],
                                       enriched_results)
            /\ calls' = Append(calls,
                    Call("hosted_completion", <<"d", "e", "e", "p", "s", "e",
                        "e", "k", "-", "c", "h", "a", "t">>, completion))
            /\ IF r.ok
               THEN /\ Finish(SummaryResponse(r.value, enriched_results))
                    /\ UNCHANGED api_error
               ELSE /\ api_error' = r.exc
                    /\ Finish(SummaryFailedResponse(r.exc, enriched_results))
    /\ UNCHANGED <<request, llm_mode, search_results, enriched_results>>
    /\ UNCHANGED <<ics_vars, config_vars, lib_vars>>

NextApi ==
    \/ GeneratePlanBegin
    \/ CheckOllamaConnection
    \/ OllamaChat
    \/ HostedPlanCompletion
    \/ SearchBegin
    \/ GoogleSearch
    \/ ExtractPage
    \/ Summarize

SpecApi == InitApi /\ [][NextApi]_vars

(***************************************************************************)
(* The calendar-export route.                                              *)
(***************************************************************************)
ExportPlans ==
    { <<"-", " ", "a">>, <<"D", "a", "y", " ", "1", ":", "\n", "-", " ",
        "a">>, <<"D", "a", "y", " ", "1", ":", "\n", "-", " ", "a", "\n", "D",
        "a", "y", " ", "2", ":", "\n", "-", " ", "b">>,
      <<"n", "o", "t", "e", "\n", "D", "a", "y", " ", "0", ":", "\n", "-",
          " ", "a">> }

ExportBodies ==
    {JNull, JList(0), JList(1)} \cup
    {ObjectOf([plan |-> p, destination |-> dest, start_date |-> sd]) :
        p \in {Absent, JNull, JStr(<<>>), JNum(5)}
                \cup {JStr(t) : t \in ExportPlans},
        dest \in {Absent, JNull, JStr(<<"R", "o", "m", "e">>)},
        sd \in {Absent, JNull, JStr(<<>>), JStr(<<"2", "0", "2", "4", "-",
            "0", "2", "-", "2", "8">>),
                JStr(<<"9", "9", "9", "9", "-", "1", "2", "-", "3",
                    "1">>), JStr(<<"2", "0", "2", "3", "-", "0", "2", "-",
                    "2", "9">>), JStr(<<"s", "o", "o", "n">>)}}

InitExport ==
    /\ plan_text = <<>>
    /\ ics_destination = <<>>
    /\ start_date = NoStartDate
    /\ now \in Clocks
    /\ calendar = Pending
    /\ LLM_MODE = <<"c", "l", "o", "u", "d">>
    /\ OLLAMA_MODEL = <<"m", "1", ":", "b">>
    /\ GOOGLE_API_KEY = DefaultGoogleKey
    /\ GOOGLE_SEARCH_ENGINE_ID = DefaultEngineId
    /\ request \in Requests("export-ics", ExportBodies)
    /\ pc = "received"
    /\ HandlerIdle
    /\ LibIdle

\* export_ics up to the call of parse_plan_to_ics
ExportIcsBegin ==
    /\ pc = "received" /\ request.route = "export-ics"
    /\ LET b == export_ics_begin(request)
       IN  IF b.done
           THEN Finish(b.response)
           ELSE pc' = "export" /\ UNCHANGED response
    /\ UNCHANGED <<request, llm_mode, prompt, search_results, enriched_results,
                   api_error, calls>>
    /\ UNCHANGED <<ics_vars, config_vars, lib_vars>>

\* the call of parse_plan_to_ics and the rest of export_ics
ExportIcsBuild ==
    /\ pc = "export"
    /\ LET b == export_ics_begin(request)
           result == export_ics_parse(b.plan, b.destination, b.start, now)
       IN  /\ calendar' = result
           /\ Finish(export_ics_respond(result, b.destination))
    /\ UNCHANGED <<plan_text, ics_destination, start_date, now>>
    /\ UNCHANGED <<request, llm_mode, prompt, search_results, enriched_results,
                   api_error, calls>>
    /\ UNCHANGED <<config_vars, lib_vars>>

NextExport == ExportIcsBegin \/ ExportIcsBuild

SpecExport == InitExport /\ [][NextExport]_vars

(***************************************************************************)
(* The aggregator, search_destination_info.                                *)
(***************************************************************************)
\* a result of the search API for a page; several results can share a link
PageItem(link, n) ==
    [title |-> <<"T", link, Digits[n + 1]>>,
     snippet |-> <<"S", link, Digits[n + 1]>>,
     link |-> <<"L", link>>]

\* what the search API answers to one of the queries (num_results=3)
AggregatorAnswers ==
    { [kind |-> "connection_error"],
      [kind |-> "ok", items |-> <<PageItem("a", 1), PageItem("b", 1)>>],
      [kind |-> "ok", items |-> <<PageItem("c", 1), PageItem("a", 2)>>],
      [kind |-> "ok",
       items |-> <<PageItem("d", 1), PageItem("e", 1), PageItem("f", 1)>>] }

\* what the page of a link answers to the fetch: its text, or the way this
\* page fails
AggregatorFetches(link) ==
    {[kind |-> "ok", text |-> <<"C", "o", "l", "o", "s", "s", "e", "u",
        "m">>]} \cup
    (CASE link = <<"L", "a">> ->
            {[kind |-> "status", status |-> s] : s \in {403, 404}}
       [] link = <<"L", "b">> -> {[kind |-> "network_error"]}
       [] link = <<"L", "c">> -> {[kind |-> "parse_error"]}
       [] link = <<"L", "d">> -> {[kind |-> "status", status |-> 404]}
       [] link = <<"L", "e">> -> {[kind |-> "ok", text |-> <<>>]}
       [] OTHER -> {[kind |-> "status", status |-> 403]})

InitAggregate ==
    /\ IcsIdle
    /\ HandlerIdle
    /\ TextIdle
    /\ RagIdle
    /\ LLM_MODE = <<"c", "l", "o", "u", "d">>
    /\ OLLAMA_MODEL = <<"m", "1", ":", "b">>
    /\ GOOGLE_API_KEY = DefaultGoogleKey
    /\ GOOGLE_SEARCH_ENGINE_ID = DefaultEngineId
    /\ request = NoRequest
    /\ pc = "queries"
    /\ search_queries \in {SearchQueries(<<"R", "o", "m",
        "e">>, <<"3">>, p) : p \in {<<>>, <<"a", "r", "t">>}}
    /\ all_results = <<>>
    /\ unique_results = <<>>
    /\ aggregated = Pending

\* one iteration of the loop over the queries (223-225); after the last
\* one, the removal of duplicates and the early return (227-237).
\* search_queries holds the queries that are still to be sent.
AggregateSearch ==
    /\ pc = "queries"
    /\ \E answer \in AggregatorAnswers :
        LET query == Head(search_queries)
            r == google_search(GOOGLE_API_KEY, GOOGLE_SEARCH_ENGINE_ID, answer)
            found == IF r.ok THEN all_results \o r.value ELSE all_results
            unique == unique_by_link(found, 1, {}, <<>>)
        IN  /\ calls' = Append(calls, Call("google_search", query, answer))
            /\ search_queries' = Tail(search_queries)
            /\ all_results' = found
            /\ IF ~r.ok
               THEN /\ aggregated' = Raised(r.exc.type)
                    /\ pc' = "done"
                    /\ UNCHANGED unique_results
               ELSE IF Tail(search_queries) # <<>>
               THEN UNCHANGED <<pc, unique_results, aggregated>>
               ELSE /\ unique_results' = unique
                    /\ IF unique = <<>>
                       THEN aggregated' = ReturnedValue(<<>>) /\ pc' = "done"
                       ELSE pc' = "pages" /\ UNCHANGED aggregated
    /\ UNCHANGED <<request, llm_mode, prompt, search_results, enriched_results,
                   api_error, response>>
    /\ UNCHANGED <<ics_vars, config_vars, text_vars, rag_vars>>

\* the position in unique_results[:5] of the next page to fetch, and the
\* result there
NextPageIndex ==
    Cardinality({j \in 1..Len(calls) : calls[j].op = "page_fetch"}) + 1
NextPage == Prefix(unique_results, ExtractLimit)[NextPageIndex]

\* one iteration of the extraction loop (243-256); after the last one, the
\* return (260)
AggregateExtract ==
    /\ pc = "pages"
    /\ \E fetch \in AggregatorFetches(NextPage.link) :
        LET pages == Prefix(unique_results, ExtractLimit)
            i == NextPageIndex
            result == NextPage
            enriched == enrich(enriched_results, result, fetch)
        IN  /\ calls' = Append(calls, Call("page_fetch", result.link, fetch))
            /\ enriched_results' = enriched
            /\ IF i = Len(pages)
               THEN aggregated' = ReturnedValue(enriched) /\ pc' = "done"
               ELSE UNCHANGED <<pc, aggregated>>
    /\ UNCHANGED <<request, llm_mode, prompt, search_results, api_error,
                   response>>
    /\ UNCHANGED <<search_queries, all_results, unique_results>>
    /\ UNCHANGED <<ics_vars, config_vars, text_vars, rag_vars>>

NextAggregate == AggregateSearch \/ AggregateExtract

SpecAggregate == InitAggregate /\ [][NextAggregate]_vars

(***************************************************************************)
(* split_text_into_chunks as a function of its arguments.                  *)
(***************************************************************************)
MaxTextLen == 6        \* texts have 0..MaxTextLen characters
MaxChunkSize == 6      \* chunk_size is 0..MaxChunkSize

TextsOver(alphabet, n) == UNION {[1..k -> alphabet] : k \in 0..n}

ChunkTexts == TextsOver({"a", "b", " ", "\n"}, MaxTextLen)

InitChunks ==
    /\ IcsIdle
    /\ HandlerIdle
    /\ AggIdle
    /\ RagIdle
    /\ LLM_MODE = <<"c", "l", "o", "u", "d">>
    /\ OLLAMA_MODEL = <<"m", "1", ":", "b">>
    /\ GOOGLE_API_KEY = DefaultGoogleKey
    /\ GOOGLE_SEARCH_ENGINE_ID = DefaultEngineId
    /\ request = NoRequest
    /\ pc = "idle"
    /\ raw_text \in ChunkTexts
    /\ chunk_size \in 0..MaxChunkSize
    /\ cleaned_text = Pending
    /\ chunks = Pending
    /\ guide = Pending

SplitTextIntoChunks ==
    /\ chunks = Pending
    /\ chunks' = ReturnedValue(split_text_into_chunks(raw_text, chunk_size))
    /\ UNCHANGED <<raw_text, chunk_size, cleaned_text, guide>>
    /\ UNCHANGED <<ics_vars, config_vars, api_vars, agg_vars, rag_vars>>

NextChunks == SplitTextIntoChunks

SpecChunks == InitChunks /\ [][NextChunks]_vars

(***************************************************************************)
(* clean_text as a function of its argument.                               *)
(***************************************************************************)
MaxCleanLen == 5       \* clean_text is given 0..MaxCleanLen characters

CleanTexts ==
    TextsOver({"a", "1", ",", " ", "\n", "\f", "U+4E2D", "U+FF0C"}
                \cup EmojiAtoms, MaxCleanLen)

InitClean ==
    /\ IcsIdle
    /\ HandlerIdle
    /\ AggIdle
    /\ RagIdle
    /\ LLM_MODE = <<"c", "l", "o", "u", "d">>
    /\ OLLAMA_MODEL = <<"m", "1", ":", "b">>
    /\ GOOGLE_API_KEY = DefaultGoogleKey
    /\ GOOGLE_SEARCH_ENGINE_ID = DefaultEngineId
    /\ request = NoRequest
    /\ pc = "idle"
    /\ raw_text \in CleanTexts
    /\ chunk_size = 0
    /\ cleaned_text = Pending
    /\ chunks = Pending
    /\ guide = Pending

CleanText ==
    /\ cleaned_text = Pending
    /\ cleaned_text' = ReturnedValue(clean_text(raw_text))
    /\ UNCHANGED <<raw_text, chunk_size, chunks, guide>>
    /\ UNCHANGED <<ics_vars, config_vars, api_vars, agg_vars, rag_vars>>

NextClean == CleanText

SpecClean == InitClean /\ [][NextClean]_vars

(***************************************************************************)
(* The vector store as a library: any sequence of calls of                 *)
(* init_rag_system, store_guide_to_vector_db and search_similar_content.   *)
(***************************************************************************)
MaxStored == 3         \* the collection holds at most MaxStored records
MaxBatches == 2        \* at most MaxBatches store calls generate ids
MaxConstructed == 2    \* at most MaxConstructed clients are constructed
MaxClock == 2          \* the clock runs from 0 to MaxClock

\* which library calls of init_rag_system succeed: all of them, or all up
\* to the first one that fails (get_collection failing with and without
\* create_collection, the first model failing with and without the default)
AllInitCalls == [client |-> TRUE, get_collection |-> TRUE,
                 create_collection |-> TRUE, first_model |-> TRUE,
                 default_model |-> TRUE]
InitLibs ==
    {AllInitCalls,
     [AllInitCalls EXCEPT !.client = FALSE],
     [AllInitCalls EXCEPT !.get_collection = FALSE],
     [AllInitCalls EXCEPT !.get_collection = FALSE, !.create_collection = FALSE],
     [AllInitCalls EXCEPT !.first_model = FALSE],
     [AllInitCalls EXCEPT !.first_model = FALSE, !.default_model = FALSE]}
\* which library calls of a store or a search succeed: all, or all but one;
\* and what the library does with an id that is already stored
AllCalls == [get_collection |-> TRUE, encode |-> TRUE, add |-> TRUE,
             duplicate_error |-> FALSE, query |-> TRUE]
CallLibs ==
    {AllCalls,
     [AllCalls EXCEPT !.duplicate_error = TRUE],
     [AllCalls EXCEPT !.get_collection = FALSE],
     [AllCalls EXCEPT !.encode = FALSE],
     [AllCalls EXCEPT !.add = FALSE],
     [AllCalls EXCEPT !.query = FALSE]}
ProcessedGuides ==
    {None, [title |-> "Rome"], [title |-> "Rome", chunks |-> <<>>],
     [title |-> "Rome", chunks |-> <<"c1">>],
     [title |-> "Rome", chunks |-> <<"c1", "c2">>]}
ResultCounts == {1, 20}
\* the answers collection.query can give for n_results documents
QueryAnswers(stored, n_results) ==
    LET most == IF n_results < 10 THEN n_results ELSE 10
    IN  {Prefix(stored, k) : k \in 0..most}

InitRag ==
    /\ IcsIdle
    /\ HandlerIdle
    /\ AggIdle
    /\ TextIdle
    /\ LLM_MODE = <<"c", "l", "o", "u", "d">>
    /\ OLLAMA_MODEL = <<"m", "1", ":", "b">>
    /\ GOOGLE_API_KEY = DefaultGoogleKey
    /\ GOOGLE_SEARCH_ENGINE_ID = DefaultEngineId
    /\ request = NoRequest
    /\ pc = "idle"
    /\ CHROMADB_AVAILABLE \in BOOLEAN
    /\ vector_db = None
    /\ embedding_model = None
    /\ collection = <<>>
    /\ last_init = None
    /\ rag_return = None
    /\ rag_clock = 0
    /\ id_batches = <<>>
    /\ constructed = [clients |-> 0, models |-> 0]

InitRagSystem ==
    /\ \E lib \in InitLibs :
        LET after == init_rag_system(CHROMADB_AVAILABLE, vector_db,
                                     embedding_model, lib)
        IN  /\ constructed.clients + after.clients <= MaxConstructed
            /\ vector_db' = after.vector_db
            /\ embedding_model' = after.embedding_model
            /\ last_init' = ReturnedValue(after.result)
            /\ constructed' =
                 [clients |-> constructed.clients + after.clients,
                  models |-> constructed.models + after.models]
    /\ UNCHANGED <<CHROMADB_AVAILABLE, collection, rag_return, rag_clock,
                   id_batches>>
    /\ UNCHANGED <<ics_vars, config_vars, api_vars, agg_vars, text_vars>>

StoreGuide ==
    /\ \E processed_data \in ProcessedGuides, lib \in CallLibs :
        LET after == store_guide_to_vector_db(vector_db, embedding_model,
                                              collection, processed_data,
                                              rag_clock, lib)
        IN  /\ Len(after.collection) <= MaxStored
            /\ after.ids # <<>> => Len(id_batches) < MaxBatches
            /\ collection' = after.collection
            /\ id_batches' = IF after.ids # <<>>
                             THEN Append(id_batches, after.ids)
                             ELSE id_batches
            /\ rag_return' = [op |-> "store", stored |-> after.result]
    /\ UNCHANGED <<CHROMADB_AVAILABLE, vector_db, embedding_model, last_init,
                   rag_clock, constructed>>
    /\ UNCHANGED <<ics_vars, config_vars, api_vars, agg_vars, text_vars>>

SearchSimilar ==
    /\ \E n_results \in ResultCounts, lib \in CallLibs :
        \E found \in QueryAnswers(collection, n_results) :
            rag_return' =
                [op |-> "search",
                 results |-> search_similar_content(vector_db, embedding_model,
                                                    n_results, lib, found)]
    /\ UNCHANGED <<CHROMADB_AVAILABLE, vector_db, embedding_model, collection,
                   last_init, rag_clock, id_batches, constructed>>
    /\ UNCHANGED <<ics_vars, config_vars, api_vars, agg_vars, text_vars>>

\* half a second passes
Tick ==
    /\ rag_clock < MaxClock
    /\ rag_clock' = rag_clock + 1
    /\ UNCHANGED <<CHROMADB_AVAILABLE, vector_db, embedding_model, collection,
                   last_init, rag_return, id_batches, constructed>>
    /\ UNCHANGED <<ics_vars, config_vars, api_vars, agg_vars, text_vars>>

NextRag == InitRagSystem \/ StoreGuide \/ SearchSimilar \/ Tick

SpecRag == InitRag /\ [][NextRag]_vars

(***************************************************************************)
(* process_xiaohongshu_guide as a function of its arguments.               *)
(***************************************************************************)
MaxGuideParts == 3     \* a guide text is made of 0..MaxGuideParts parts

\* a run of letters as long as the searched prefix, which moves what
\* follows it out of the prefix
LongFiller == [i \in 1..SearchPrefix |-> "a"]

GuideParts ==
    { <<"U+53BB">>,
      <<"R", "a">>,
      <<"U+65C5", "U+6E38">>,
      <<"U+76EE", "U+7684", "U+5730", ":", " ">>,
      <<"3">>,
      <<" ", "U+5929">>,
      <<"\n">>,
      LongFiller }

GuideTexts ==
    {Concat(parts) : parts \in UNION {[1..n -> GuideParts] : n \in 0..MaxGuideParts}}

GuideTitles == { <<"g">> }

InitGuide ==
    /\ IcsIdle
    /\ HandlerIdle
    /\ AggIdle
    /\ RagIdle
    /\ LLM_MODE = <<"c", "l", "o", "u", "d">>
    /\ OLLAMA_MODEL = <<"m", "1", ":", "b">>
    /\ GOOGLE_API_KEY = DefaultGoogleKey
    /\ GOOGLE_SEARCH_ENGINE_ID = DefaultEngineId
    /\ request = NoRequest
    /\ pc = "idle"
    /\ raw_text \in GuideTexts
    /\ chunk_size = DefaultChunkSize
    /\ cleaned_text = Pending
    /\ chunks = Pending
    /\ guide = Pending

ProcessGuide ==
    /\ guide = Pending
    /\ \E title \in GuideTitles :
        guide' = ReturnedValue(process_xiaohongshu_guide(raw_text, title, now))
    /\ UNCHANGED <<raw_text, chunk_size, cleaned_text, chunks>>
    /\ UNCHANGED <<ics_vars, config_vars, api_vars, agg_vars, rag_vars>>

NextGuide == ProcessGuide

SpecGuide == InitGuide /\ [][NextGuide]_vars

(***************************************************************************)
(* Claims about parse_plan_to_ics, checked under SpecIcs.                  *)
(***************************************************************************)
PlanLines == split_lines(plan_text)
IsMarkerLine(i) == day_match(strip(PlanLines[i])).matched
MarkerNumber(i) == ParseInt(day_match(strip(PlanLines[i])).group1)
MarkerLines == {i \in 1..Len(PlanLines) : IsMarkerLine(i)}
IsBulletLine(i) == ~IsMarkerLine(i) /\ IsCollected(strip(PlanLines[i]))
NextMarkerAfter(i) ==
    IF \E j \in MarkerLines : j > i
    THEN SetMin({j \in MarkerLines : j > i})
    ELSE Len(PlanLines) + 1
MarkerRank(i) == Cardinality({j \in MarkerLines : j <= i})

\* the text holds the markers Day 1 .. Day N in order, N >= 1, each followed
\* by a bullet line before the next marker or the end of the text
DaysInOrderWithBullets ==
    /\ MarkerLines # {}
    /\ \A i \in MarkerLines :
        /\ MarkerNumber(i) = MarkerRank(i)
        /\ \E j \in (i + 1)..(NextMarkerAfter(i) - 1) : IsBulletLine(j)

StartDateUsable == ~start_date.given \/ IsValidDate(start_date)
\* the day the plan starts on: the given date, or tomorrow
StartOrd ==
    IF start_date.given
    THEN ToOrdinal(start_date.year, start_date.month, start_date.day)
    ELSE now.ord + 1

OnDayAt(dt, ord, hour) == dt.ord = ord /\ dt.hour = hour /\ dt.minute = 0

\* C1: for a plan text with the markers "Day 1:" .. "Day N:" in order, each
\* followed by at least one bullet line, and a valid start_date, the call
\* returns a calendar of exactly N events, the one of day k named
\* "Day k: {destination}", from 09:00 to 18:00 on start_date + (k-1) days.
C1_OneEventPerDay ==
    (/\ calendar # Pending
     /\ start_date.given /\ IsValidDate(start_date)
     /\ DaysInOrderWithBullets)
    => /\ calendar.status = "returned"
       /\ Cardinality(calendar.events) = Cardinality(MarkerLines)
       /\ \A k \in 1..Cardinality(MarkerLines) :
            \E e \in calendar.events :
                /\ e.name = <<"D", "a", "y", " ">> \o FormatInt(k)
                                \o <<":", " ">> \o ics_destination
                /\ OnDayAt(e.begin, StartOrd + k - 1, 9)
                /\ OnDayAt(e.end, StartOrd + k - 1, 18)

\* C2: for a plan text in which no line matches the "Day N:" marker, the
\* call returns a calendar of exactly one event, named
\* "Travel Plan: {destination}", from 09:00 to 18:00 on the start date, whose
\* description is the first 1000 characters of the plan text (the whole text
\* when it is shorter).
C2_FallbackEvent ==
    (calendar # Pending /\ StartDateUsable /\ MarkerLines = {})
    => /\ calendar.status = "returned"
       /\ \E e \in calendar.events :
            /\ calendar.events = {e}
            /\ e.name = <<"T", "r", "a", "v", "e", "l", " ", "P", "l", "a",
                          "n", ":", " ">> \o ics_destination
            /\ OnDayAt(e.begin, StartOrd, 9)
            /\ OnDayAt(e.end, StartOrd, 18)
            /\ Len(e.description) =
                 (IF Len(plan_text) < 1000 THEN Len(plan_text) ELSE 1000)
            /\ \A i \in 1..Len(e.description) :
                 e.description[i] = plan_text[i]

\* a text without markers that is longer than 1000 characters was exported
C2_Witness ==
    /\ calendar # Pending
    /\ StartDateUsable
    /\ MarkerLines = {}
    /\ Len(plan_text) > 1000
    /\ calendar.status = "returned"

\* C3: for every plan text, every destination and every start_date that is
\* absent or a valid date, the call does not raise and returns a calendar
\* with at least one event.
C3_AlwaysAnEvent ==
    (calendar # Pending /\ StartDateUsable)
    => (calendar.status = "returned" /\ calendar.events # {})


\* the lines collected for the marker of line i: the stripped bullet lines
\* from line j up to the next marker or the end of the text
RECURSIVE CollectedFrom(_, _)
CollectedFrom(j, stop) ==
    IF j >= stop THEN <<>>
    ELSE (IF IsBulletLine(j) THEN <<strip(PlanLines[j])>> ELSE <<>>)
            \o CollectedFrom(j + 1, stop)
CollectedFor(i) == CollectedFrom(i + 1, NextMarkerAfter(i))
MarkersWithLines == {i \in MarkerLines : CollectedFor(i) # <<>>}

\* C18: when the call returns, each "Day N:" line (N >= 0, in any order,
\* repeated or not) that is followed by a line starting with '**', '-' or
\* '*' before the next marker or the end of the text has exactly one event
\* of its own, named "Day N: {destination}", on start_date + (N-1) days,
\* whose description is those lines joined by newlines and cut to 1000
\* characters, and no other line makes an event.
C18_EventPerMarker ==
    (calendar # Pending /\ calendar.status = "returned"
        /\ MarkersWithLines # {})
    => /\ Cardinality(calendar.events) = Cardinality(MarkersWithLines)
       /\ \A i \in MarkersWithLines :
            \E e \in calendar.events :
                /\ e.name = DayEventName(MarkerNumber(i), ics_destination)
                /\ OnDayAt(e.begin, StartOrd + MarkerNumber(i) - 1, 9)
                /\ OnDayAt(e.end, StartOrd + MarkerNumber(i) - 1, 18)
                /\ e.description = Prefix(join_lines(CollectedFor(i)), 1000)

(***************************************************************************)
(* Claims about the routes, checked under SpecApi.                         *)
(***************************************************************************)
Handled == pc = "done"
IsPlanRequest == request.route = "generate-plan"
IsSearchRequest == request.route = "search"
CallsOf(ops) == {i \in 1..Len(calls) : calls[i].op \in ops}
ModelCalls == CallsOf({"ollama_tags", "ollama_chat", "hosted_completion"})
LastCall == calls[Len(calls)]
Failed == response.status # 200 \/ ~response.body.success

\* the body is a JSON object whose field k is missing or empty
FieldMissingOrEmpty(k) ==
    \/ k \notin DOMAIN request.json.fields
    \/ ~Truthy(request.json.fields[k])

JsonObjectRequest == request.is_json /\ request.json.t = "obj"

\* a JSON request to /api/generate-plan with days and destination present
ValidPlanRequest ==
    /\ IsPlanRequest
    /\ JsonObjectRequest
    /\ ~FieldMissingOrEmpty("days")
    /\ ~FieldMissingOrEmpty("destination")

\* C4: a JSON request to /api/generate-plan whose destination or days field
\* is missing or empty is answered with HTTP 400 and success=false, whatever
\* the other fields of the body are, and no language-model call is issued.
C4_MissingFieldIs400 ==
    (/\ Handled /\ IsPlanRequest /\ JsonObjectRequest
     /\ FieldMissingOrEmpty("destination") \/ FieldMissingOrEmpty("days"))
    => /\ response.status = 400
       /\ response.body.success = FALSE
       /\ ModelCalls = {}

\* the model backend answered the last call with a completion: the hosted
\* API with a response that has a choice, the local server with a message
\* whose content is not empty
BackendSucceeded ==
    /\ calls # <<>>
    /\ \/ /\ LastCall.op = "hosted_completion"
          /\ LastCall.outcome.kind = "response"
          /\ LastCall.outcome.choices > 0
       \/ /\ LastCall.op = "ollama_chat"
          /\ LastCall.outcome.kind = "content"
          /\ LastCall.outcome.content # <<>>

\* C5: a request to /api/generate-plan with days and destination present,
\* in either mode, is answered with HTTP 200, success=true and a non-empty
\* plan string when the call of the model backend succeeds.
C5_PlanOnSuccess ==
    (Handled /\ ValidPlanRequest /\ BackendSucceeded)
    => /\ response.status = 200
       /\ response.body.success = TRUE
       /\ "plan" \in DOMAIN response.body
       /\ response.body.plan.t = "str"
       /\ response.body.plan.s # <<>>

\* what kind of failure the answer of a backend is: an authentication
\* failure, a rate-limit failure, or another one
FailureClass(call) ==
    IF call.op = "hosted_completion"
    THEN IF call.outcome.kind = "raise" /\ call.outcome.class = "auth"
         THEN "auth"
         ELSE IF call.outcome.kind = "raise"
                    /\ call.outcome.class = "rate_limit"
         THEN "rate_limit"
         ELSE "other"
    ELSE IF call.outcome.kind = "http_error" /\ call.outcome.status = 401
         THEN "auth"
         ELSE IF call.outcome.kind = "http_error"
                    /\ call.outcome.status = 429
         THEN "rate_limit"
         ELSE "other"

\* C6: in /api/generate-plan a failed model call gives HTTP 401 when the
\* backend failed to authenticate, HTTP 429 when it throttled, and HTTP 500
\* for every other failure (timeout, connection failure, missing local
\* model, malformed or empty response), always with success=false and an
\* error string.
C6_FailureStatus ==
    (Handled /\ IsPlanRequest /\ api_error # NoError)
    => /\ response.status =
            (CASE FailureClass(LastCall) = "auth" -> 401
               [] FailureClass(LastCall) = "rate_limit" -> 429
               [] OTHER -> 500)
       /\ response.body.success = FALSE
       /\ "error" \in DOMAIN response.body

\* the tag endpoint listed the installed models and the configured model is
\* none of them, neither by its exact name nor ignoring the ':tag'
ModelAbsentFrom(names) ==
    \A i \in 1..Len(names) :
        /\ names[i] # OLLAMA_MODEL
        /\ BeforeColon(names[i]) # BeforeColon(OLLAMA_MODEL)
PreflightFoundNoModel ==
    \E i \in CallsOf({"ollama_tags"}) :
        /\ calls[i].outcome.kind = "ok"
        /\ ModelAbsentFrom(calls[i].outcome.names)

\* C7: in local mode the GET of the tag endpoint comes before any POST to
\* the chat endpoint, and when the configured model is absent from the
\* installed models no chat POST is issued and the call fails with a
\* message that names the configured model.
C7_PreflightFirst ==
    /\ \A i \in CallsOf({"ollama_chat"}) :
            \E j \in CallsOf({"ollama_tags"}) : j < i
    /\ PreflightFoundNoModel
        => /\ CallsOf({"ollama_chat"}) = {}
           /\ Handled
           /\ api_error # NoError
           /\ Contains(api_error.msg, OLLAMA_MODEL)
           /\ Failed

\* the preflight found the model missing while other models are installed
C7_Witness ==
    /\ Handled
    /\ PreflightFoundNoModel
    /\ \E i \in CallsOf({"ollama_tags"}) : calls[i].outcome.names # <<>>
    /\ llm_mode = <<"l", "o", "c", "a", "l">>

\* the mode of the request: its llm_mode field when it has one, else LLM_MODE
ResolvedMode ==
    IF "llm_mode" \in DOMAIN request.json.fields
    THEN request.json.fields["llm_mode"]
    ELSE JStr(LLM_MODE)
IsLocalMode(v) == v.t = "str" /\ Lower(v.s) = <<"l", "o", "c", "a", "l">>

\* C8: the llm_mode field of the request, when there is one, decides the
\* backend whatever LLM_MODE is, else LLM_MODE decides; the local backend is
\* used exactly when the resolved mode is 'local' ignoring case and the
\* hosted one for every other value; no request calls both.
C8_BackendSelection ==
    (Handled /\ ValidPlanRequest)
    => IF IsLocalMode(ResolvedMode)
       THEN /\ calls # <<>>
            /\ calls[1].op = "ollama_tags"
            /\ CallsOf({"hosted_completion"}) = {}
       ELSE /\ Len(calls) = 1
            /\ calls[1].op = "hosted_completion"

\* the summarization call failed: it raised, or its response has no choice
SummaryCallFailed ==
    /\ calls # <<>>
    /\ LastCall.op = "hosted_completion"
    /\ \/ LastCall.outcome.kind = "raise"
       \/ LastCall.outcome.choices = 0

\* C9: in /api/search, once the search gave a result, a failure of the
\* summarization call (an exception, or a response without choices) gives
\* HTTP 200 with success=true, summary_error=true, an explanatory summary
\* and the references the route returns when the model succeeds.
C9_SummaryFailureIsSuccess ==
    (Handled /\ IsSearchRequest /\ search_results # <<>> /\ SummaryCallFailed)
    => /\ response.status = 200
       /\ response.body.success = TRUE
       /\ "summary_error" \in DOMAIN response.body
       /\ response.body.summary_error = TRUE
       /\ response.body.summary.t = "str"
       /\ StartsWith(response.body.summary.s,
                     <<"[AI summary is temporarily unavailable. ]">>)
       /\ Len(response.body.references) = MaxExtract(search_results)
       /\ response.body.references =
            SummaryResponse(JNull, enriched_results).body.references

\* the summarization call raised after three pages were fetched
C9_Witness ==
    /\ Handled /\ IsSearchRequest
    /\ SummaryCallFailed
    /\ LastCall.outcome.kind = "raise"
    /\ Len(enriched_results) = 3
    /\ Len(search_results) > 3

\* a call of the search provider, or a page fetch, that failed with a
\* transport or HTTP error
SearchFailures ==
    {i \in CallsOf({"google_search"}) : calls[i].outcome.kind # "ok"}
PageFailures ==
    {i \in CallsOf({"page_fetch"}) :
        calls[i].outcome.kind \in {"status", "network_error"}}

\* C10 as stated: for a request to /api/search or /api/generate-plan with
\* valid input, a transport or HTTP error of the search provider call or of
\* a page fetch does not make the response a failure response.
C10_FailuresAbsorbed ==
    (Handled /\ (SearchFailures # {} \/ PageFailures # {}))
    => ~Failed

\* C10 as amended: a failed page fetch never makes the response of
\* /api/search a failure response; a transport or HTTP error of the search
\* provider is absorbed into an empty result list, which /api/search answers
\* with HTTP 404 and success=false, not with an exception or HTTP 500;
\* /api/generate-plan issues no search call and no page fetch.
C10_PageFailuresAbsorbed ==
    /\ (Handled /\ PageFailures # {}) => ~Failed
    /\ (Handled /\ SearchFailures # {})
        => response.status = 404 /\ response.body.success = FALSE
    /\ IsPlanRequest => CallsOf({"google_search", "page_fetch"}) = {}

\* a search whose page fetches failed, by the network and by the status
C10_Witness ==
    /\ Handled /\ IsSearchRequest
    /\ \E i, j \in PageFailures :
        /\ calls[i].outcome.kind = "network_error"
        /\ calls[j].outcome.kind = "status"
    /\ response.status = 200

\* the call got no usable answer: a transport or HTTP error, a body that is
\* no JSON, or an exception of the hosted client
CallFailed(c) ==
    CASE c.op = "ollama_tags" -> c.outcome.kind # "ok"
      [] c.op = "ollama_chat" -> c.outcome.kind \notin {"content", "no_message"}
      [] c.op = "hosted_completion" -> c.outcome.kind = "raise"
      [] c.op = "google_search" -> c.outcome.kind # "ok"
      [] c.op = "page_fetch" -> c.outcome.kind # "ok"

C19_AllResultsReferenced ==
    (Handled /\ IsSearchRequest /\ response.status = 200
        /\ response.body.success)
    => /\ Len(response.body.references) = Len(search_results)
       /\ \A i \in 1..Len(search_results) :
            /\ response.body.references[i].title = search_results[i].title
            /\ response.body.references[i].link = search_results[i].link

\* the prompt holds a block of a search result ("=== Source i ===")
PromptHasSourceBlock ==
    \E i \in 1..Len(prompt) : prompt[i] \in {"[=== Source ]", "[\nContent: ]",
                                             "[\nSummary: ]"}

\* C25: while a /api/generate-plan request is handled no search query and
\* no page fetch is issued, the handler holds no search result, the prompt
\* has no search-result block, and a success response has the empty list
\* as its references.
C25_PlanWithoutSearch ==
    IsPlanRequest
    => /\ CallsOf({"google_search", "page_fetch"}) = {}
       /\ search_results = <<>> /\ enriched_results = <<>>
       /\ ~PromptHasSourceBlock
       /\ (Handled /\ response.status = 200 /\ response.body.success)
            => response.body.references = <<>>

\* a plan request was answered with a plan after its model call
C25_Witness ==
    /\ Handled /\ IsPlanRequest
    /\ response.status = 200 /\ response.body.success
    /\ ModelCalls # {}
    /\ prompt # <<>>

(***************************************************************************)
(* Claims about the calendar-export route, checked under SpecExport.       *)
(***************************************************************************)
\* the body of the export request is JSON with a non-empty plan field
ExportPlanGiven ==
    /\ request.is_json
    /\ request.json.t = "obj"
    /\ ~FieldMissingOrEmpty("plan")

\* C11: a request to /api/export-ics whose body is not JSON, or is JSON
\* without a non-empty plan field (a body that is null or a list included),
\* is answered with HTTP 400 and success=false and no calendar is built;
\* HTTP 500 is returned only for a failure after validation passed.
C11_InvalidExportIs400 ==
    (Handled /\ request.route = "export-ics")
    => /\ ~ExportPlanGiven
          => /\ response.status = 400
             /\ response.body.success = FALSE
             /\ calendar = Pending
       /\ response.status = 500 => ExportPlanGiven

(***************************************************************************)
(* Claims about search_destination_info, checked under SpecAggregate.      *)
(***************************************************************************)
AggregatorReturned == pc = "done" /\ aggregated.status = "returned"
\* the positions in all_results of the results whose link appears there
\* for the first time
FirstSeen ==
    {k \in 1..Len(all_results) :
        \A j \in 1..(k - 1) : all_results[j].link # all_results[k].link}
FirstIndexOf(link) ==
    SetMin({k \in 1..Len(all_results) : all_results[k].link = link})
\* the i-th position of FirstSeen
NthFirstSeen(i) ==
    CHOOSE k \in FirstSeen : Cardinality({j \in FirstSeen : j <= k}) = i
\* the answer to the fetch of the page of the i-th returned result
PageCalls == CallsOf({"page_fetch"})
NthPageCall(i) ==
    calls[CHOOSE c \in PageCalls :
                Cardinality({j \in PageCalls : j <= c}) = i]

\* C12: whatever the 3 or 4 queries return, the output of
\* search_destination_info has at most one entry per link, that entry has
\* the title and snippet of the first result seen with the link, and the
\* entries are in first-seen order.
C12_FirstSeenPerLink ==
    AggregatorReturned
    => LET out == aggregated.value
       IN  /\ \A i, j \in 1..Len(out) : i < j => out[i].link # out[j].link
           /\ \A i \in 1..Len(out) :
                LET k == FirstIndexOf(out[i].link)
                IN  /\ out[i].title = all_results[k].title
                    /\ out[i].snippet = all_results[k].snippet
           /\ \A i, j \in 1..Len(out) :
                i < j => FirstIndexOf(out[i].link) < FirstIndexOf(out[j].link)

\* two queries returned the same link with different titles
C12_Witness ==
    /\ AggregatorReturned
    /\ Len(aggregated.value) >= 2
    /\ \E j, k \in 1..Len(all_results) :
        /\ j < k
        /\ all_results[j].link = all_results[k].link
        /\ all_results[j].title # all_results[k].title
        /\ \E i \in 1..Len(aggregated.value) :
                aggregated.value[i].link = all_results[j].link

\* the fetch gave no text: an error, or a page without text
ExtractionFailed(call) ==
    call.outcome.kind # "ok" \/ call.outcome.text = <<>>

\* C13: search_destination_info returns the first min(5, U) unique results,
\* U the number of distinct links found, whatever page extractions fail; a
\* result whose extraction failed has its snippet and no content field; it
\* returns [] when U = 0; it does not raise.
C13_NoResultDropped ==
    pc = "done"
    => /\ aggregated.status = "returned"
       /\ LET out == aggregated.value
              U == Cardinality(FirstSeen)
          IN  /\ Len(out) = (IF U < 5 THEN U ELSE 5)
              /\ Cardinality(PageCalls) = Len(out)
              /\ \A i \in 1..Len(out) :
                    LET found == all_results[NthFirstSeen(i)]
                    IN  /\ out[i].link = found.link
                        /\ out[i].title = found.title
                        /\ out[i].snippet = found.snippet
                        /\ ExtractionFailed(NthPageCall(i))
                            => "content" \notin DOMAIN out[i]

\* more than five links were found and the extractions of some of the
\* first five failed by the status, by the network and by the parser
C13_Witness ==
    /\ AggregatorReturned
    /\ Cardinality(FirstSeen) > 5
    /\ \E a, b, c, d \in PageCalls :
        /\ calls[a].outcome.kind = "status"
        /\ calls[b].outcome.kind = "network_error"
        /\ calls[c].outcome.kind = "parse_error"
        /\ calls[d].outcome.kind = "ok"

(***************************************************************************)
(* Claims about split_text_into_chunks, checked under SpecChunks.          *)
(***************************************************************************)
NotSpace(c) == ~IsSpace(c)
\* s with all whitespace deleted
WithoutSpace(s) == SelectSeq(s, NotSpace)
WordsOf(s) == split_words(s)
RECURSIVE ConcatWords(_)
ConcatWords(parts) ==
    IF parts = <<>> THEN <<>>
    ELSE WordsOf(Head(parts)) \o ConcatWords(Tail(parts))

\* C14: the chunks, concatenated in order and with all whitespace deleted,
\* are the input text with all whitespace deleted; every word is in exactly
\* one chunk, in input order; no chunk is empty.
C14_ChunksKeepText ==
    chunks # Pending
    => /\ WithoutSpace(Concat(chunks.value)) = WithoutSpace(raw_text)
       /\ ConcatWords(chunks.value) = WordsOf(raw_text)
       /\ \A i \in 1..Len(chunks.value) : chunks.value[i] # <<>>

\* a paragraph longer than the chunk size was cut into several chunks
C14_Witness ==
    /\ chunks # Pending
    /\ Len(chunks.value) >= 2
    /\ Len(split_paragraphs(raw_text)) = 1
    /\ \E i \in 1..Len(chunks.value) : Len(WordsOf(chunks.value[i])) >= 2

\* C15: for chunk_size >= 1 every chunk is at most chunk_size long, the
\* inserted separators counted, unless it is a single word that alone is
\* longer than chunk_size.
C15_ChunkSizeBound ==
    (chunks # Pending /\ chunk_size >= 1)
    => \A i \in 1..Len(chunks.value) :
        \/ Len(chunks.value[i]) <= chunk_size
        \/ Len(WordsOf(chunks.value[i])) = 1
            /\ WordsOf(chunks.value[i])[1] = chunks.value[i]

\* two paragraphs were joined into a chunk that fills the chunk size
C15_Witness ==
    /\ chunks # Pending
    /\ chunk_size >= 1
    /\ \E i \in 1..Len(chunks.value) :
        /\ Len(chunks.value[i]) = chunk_size
        /\ Contains(chunks.value[i], <<"\n", "\n">>)

(***************************************************************************)
(* Claims about clean_text, checked under SpecClean.                       *)
(***************************************************************************)
\* C20: the text clean_text returns has no two consecutive spaces or tabs,
\* no three consecutive newlines, no emoji code point, no control
\* character and no leading or trailing whitespace, and cleaning it again
\* changes nothing.
C20_CleanNormalForm ==
    cleaned_text # Pending
    => LET out == cleaned_text.value
       IN  /\ \A i \in 1..Len(out) - 1 : ~(IsBlank(out[i]) /\ IsBlank(out[i + 1]))
           /\ \A i \in 1..Len(out) - 2 :
                ~(out[i] = "\n" /\ out[i + 1] = "\n" /\ out[i + 2] = "\n")
           /\ \A i \in 1..Len(out) : ~IsEmoji(out[i]) /\ ~IsControl(out[i])
           /\ out = strip(out)
           /\ clean_text(out) = out

\* a Chinese character, a Latin letter, a digit or a punctuation mark, the
\* full-width ones included
IsContent(c) == c \in {"a", "1", ",", "U+4E2D", "U+FF0C"}

\* C21: the Chinese characters, Latin letters, digits and punctuation marks
\* of the input are all in the text clean_text returns, in the same order.
C21_ContentPreserved ==
    cleaned_text # Pending
    => SelectSeq(cleaned_text.value, IsContent) = SelectSeq(raw_text, IsContent)

(***************************************************************************)
(* Claims about the vector store, checked under SpecRag.                   *)
(***************************************************************************)
\* init_rag_system was never called or its most recent call returned False
RagUnavailable == last_init # ReturnedValue(TRUE)

\* C16: while the module is unavailable (init_rag_system never called, or
\* its most recent call returned False), store_guide_to_vector_db returns
\* False and inserts nothing and search_similar_content returns the empty
\* list.
C16_UnavailableIsNoOp ==
    [][RagUnavailable
       => /\ StoreGuide
              => rag_return'.stored = FALSE /\ collection' = collection
          /\ SearchSimilar => rag_return'.results = <<>>]_vars

\* C23: over any sequence of calls the persistent client and the embedding
\* model are each constructed at most once.
C23_ConstructedOnce == constructed.clients <= 1 /\ constructed.models <= 1

BatchIds(b) == {id_batches[b][k] : k \in 1..Len(id_batches[b])}

\* C24: the ids of one store call are pairwise distinct, and the ids of two
\* store calls are disjoint.
C24_IdsNeverCollide ==
    /\ \A b \in 1..Len(id_batches) :
        Cardinality(BatchIds(b)) = Len(id_batches[b])
    /\ \A b, c \in 1..Len(id_batches) :
        b # c => BatchIds(b) \cap BatchIds(c) = {}

(***************************************************************************)
(* Claims about process_xiaohongshu_guide, checked under SpecGuide.        *)
(***************************************************************************)
\* the first 500 characters of the input text
InputPrefix == Prefix(raw_text, SearchPrefix)
DestinationPatternMatches ==
    \E k \in 1..4 : destination_matches(InputPrefix)[k].matched
FirstDestinationMatch ==
    LET ms == destination_matches(InputPrefix)
    IN  ms[SetMin({k \in 1..4 : ms[k].matched})].group1

\* C22: when a destination pattern matches in the first 500 characters of
\* the input text, the returned destination is the group of the first
\* pattern that matches; when the prefix holds "<number>U+5929" the returned
\* days is that number; the sentinel is returned for a field only when no
\* pattern for it matches in the prefix.
C22_GuideFieldsExtracted ==
    guide # Pending
    => /\ DestinationPatternMatches
            => guide.value.destination = strip(FirstDestinationMatch)
       /\ extract_days(InputPrefix) # <<>>
            => guide.value.days = extract_days(InputPrefix)
       /\ guide.value.destination = Unknown => ~DestinationPatternMatches
       /\ guide.value.days = Unknown => extract_days(InputPrefix) = <<>>

====
